---- MODULE Spec2Model ----
(***************************************************************************)
(* Benchmark harness of JS-Benchmarks: the run loop that starts a server   *)
(* process per run, polls its health, drives the load generator, stops the *)
(* server and aggregates the runs of each setup into the report.           *)
(*                                                                         *)
(* Three implementations of the same loop are modelled side by side and    *)
(* selected by `impl`:                                                     *)
(*   "js"     scripts/benchmark.js  class BenchmarkRunner (unnamed/part_001)*)
(*   "legacy" the stand-alone benchmark script            (debug_ci.sh)    *)
(*   "cpp"    benchmark_wrk.cpp     class BenchmarkOrchestrator            *)
(*                                                                         *)
(* Spec is the run loop; Calc applies single functions of the harness and  *)
(* of the README generator to bounded arguments; Tester, Validator and     *)
(* Setup are the server test of ServerTester, the server test of           *)
(* SetupValidator and the setup script (unnamed/part_000).                 *)
(***************************************************************************)
EXTENDS Integers, Sequences, FiniteSets, TLC

(***************************************************************************)
(* Bounds of the model (scaled-down configuration values, the number of    *)
(* servers that ignore SIGTERM, the sizes of function arguments).  One run *)
(* per setup is the configuration of InitialTestRunner (unnamed/part_000,  *)
(* config.runs = 1); the run loop itself is the one of BenchmarkRunner.    *)
(***************************************************************************)
NumSetups == 2
ConfigRuns == 1
MaxStartupAttempts == 2
MaxStubborn == 1
MaxRuns == 3
MaxLines == 2
MaxInvocations == 2

Impls == {"js", "legacy", "cpp"}
JsImpls == {"js", "legacy"}

(***************************************************************************)
(* The setup matrix, in the order the harness visits it: frameworks outer, *)
(* runtimes inner; the node and the bun setup of a framework share a port. *)
(***************************************************************************)
AllSetups ==
    << [name |-> "Express on node", framework |-> "Express", runtime |-> "node", port |-> 3000],
       [name |-> "Express on bun",  framework |-> "Express", runtime |-> "bun",  port |-> 3000],
       [name |-> "Fastify on node", framework |-> "Fastify", runtime |-> "node", port |-> 3001],
       [name |-> "Fastify on bun",  framework |-> "Fastify", runtime |-> "bun",  port |-> 3001],
       [name |-> "Hono on node",    framework |-> "Hono",    runtime |-> "node", port |-> 3002],
       [name |-> "Hono on bun",     framework |-> "Hono",    runtime |-> "bun",  port |-> 3002] >>

setups == SubSeq(AllSetups, 1, NumSetups)

(***************************************************************************)
(* What a server process may do once started.  binds: it listens on its    *)
(* port; answer: the status code it answers a GET with, "never" when it    *)
(* accepts the connection and never responds; ignoresTerm: SIGTERM does    *)
(* not make it exit.                                                       *)
(***************************************************************************)
ServerBehaviours ==
    { [binds |-> TRUE,  answer |-> "200",   ignoresTerm |-> FALSE],
      [binds |-> FALSE, answer |-> "none",  ignoresTerm |-> FALSE],
      [binds |-> TRUE,  answer |-> "never", ignoresTerm |-> FALSE],
      [binds |-> TRUE,  answer |-> "500",   ignoresTerm |-> FALSE],
      [binds |-> TRUE,  answer |-> "200",   ignoresTerm |-> TRUE] }

(***************************************************************************)
(* The measurements one load-test run can return (runResult /              *)
(* BenchmarkResult); small integers stand for the floats.  latency is the  *)
(* average latency, p50..p99 the latency percentiles.                      *)
(***************************************************************************)
RunResults ==
    { [requestsPerSecond |-> 100, latency |-> 1, p50 |-> 1, p90 |-> 2, p95 |-> 2,
       p99 |-> 3, throughput |-> 1000, totalRequests |-> 1000, errors |-> 0,
       timeouts |-> 0, non2xx |-> 0],
      [requestsPerSecond |-> 150, latency |-> 2, p50 |-> 2, p90 |-> 3, p95 |-> 4,
       p99 |-> 5, throughput |-> 3000, totalRequests |-> 1500, errors |-> 1,
       timeouts |-> 2, non2xx |-> 3] }

NoProcess == [pid |-> 0, spawned |-> FALSE, killed |-> FALSE, sent |-> <<>>]
\* What a health-check request can meet: an HTTP response with a status
\* code, a connection error, or a peer that accepts and never responds.
Response(status) == [kind |-> "response", status |-> status]
ConnectionError == [kind |-> "error", status |-> 0]
Silent == [kind |-> "silent", status |-> 0]
NoRequest == [kind |-> "none", status |-> 0]

VARIABLES
    impl,           \* which implementation runs
    pc,             \* position of the harness's single thread of control
    setupIdx,       \* index in `setups` of the setup being processed
    run,            \* loop variable of the run loop
    runs,           \* run results collected for the current setup
    results,        \* this.results / results: the aggregates pushed so far
    serverProcess,  \* handle of the server started for the current run
    procs,          \* OS processes that exist: pid -> [port, beh, listening]
    i,              \* loop variable of waitForServer
    checks,         \* health checks issued by the current waitForServer call
    req,            \* the health-check request in flight
    serverReady,    \* what waitForServer returned for the current run
    processed,      \* setups handed to the run loop so far, in order
    succeeded,      \* per setup, the number of runs that produced a result
    statsCalls,     \* lengths of the run lists the statistics were computed on
    report,         \* the generated report
    written,        \* whether the results artifacts reached the disk
    resultsFile,    \* the report serialized to the results file
    exitStatus,     \* exit status of the harness process, -1 while it runs
    fn,             \* the function under evaluation (function-level checks)
    input,          \* its argument
    output,         \* its result
    tester,         \* ServerTester.testServer: the closure of one call
    validator,      \* SetupValidator.testServerStartup: the closure of one call
    setupCli        \* scripts/setup.js: the invocation under way, and the disk

harnessVars == << impl, pc, setupIdx, run, runs, results, serverProcess, procs, i,
                  checks, req, serverReady, processed, succeeded, statsCalls,
                  report, written, resultsFile, exitStatus >>

calcVars == << fn, input, output >>

toolVars == << tester, validator, setupCli >>

vars == << harnessVars, calcVars, toolVars >>

NoReport == [built |-> FALSE, timestamp |-> 0, results |-> <<>>,
             byRequestsPerSecond |-> <<>>, byLatency |-> <<>>, comparisons |-> <<>>]

\* No function-level evaluation takes place while the harness runs.
Unset == [set |-> FALSE]

\* Nor does a run of one of the repository's other tools.
NoTool == [active |-> FALSE]

NoTools ==
    /\ tester = NoTool
    /\ validator = NoTool
    /\ setupCli = NoTool

NoCalc ==
    /\ fn = "none"
    /\ input = <<>>
    /\ output = Unset

Pid(s, r) == (s - 1) * ConfigRuns + r

Init ==
    /\ impl \in Impls
    /\ pc = "runAll"
    /\ setupIdx = 1
    /\ run = 1
    /\ runs = <<>>
    /\ results = <<>>
    /\ serverProcess = NoProcess
    /\ procs = << >>
    /\ i = 0
    /\ checks = 0
    /\ req = NoRequest
    /\ serverReady = FALSE
    /\ processed = <<>>
    /\ succeeded = [s \in 1..NumSetups |-> 0]
    /\ statsCalls = <<>>
    /\ report = NoReport
    /\ written = "no"
    /\ resultsFile = NoReport
    /\ exitStatus = -1
    /\ NoCalc
    /\ NoTools

(***************************************************************************)
(* Operating-system processes and signals.                                 *)
(***************************************************************************)
Remove(ps, pid) == [p \in DOMAIN ps \ {pid} |-> ps[p]]

\* The process table after signal sig reached process pid: SIGKILL always
\* ends it, SIGTERM ends it unless the server ignores SIGTERM.
Deliver(ps, pid, sig) ==
    IF pid \notin DOMAIN ps THEN ps
    ELSE IF sig = "SIGKILL" \/ ~ps[pid].beh.ignoresTerm THEN Remove(ps, pid)
    ELSE ps

\* serverProcess.kill(sig) of Node: a handle whose process has exited, or
\* was never spawned, sends nothing and leaves `killed` false; otherwise the
\* signal is delivered and `killed` becomes true, whether or not the process
\* exits.
HandleLive(h, ps) == h.spawned /\ h.pid \in DOMAIN ps

KillHandle(h, ps, sig) ==
    IF HandleLive(h, ps)
    THEN [h EXCEPT !.killed = TRUE, !.sent = Append(@, sig)]
    ELSE h

KillProcs(h, ps, sig) ==
    IF HandleLive(h, ps) THEN Deliver(ps, h.pid, sig) ELSE ps

\* The pids listening on a port (at most one).
Listeners(ps, port) == {p \in DOMAIN ps : ps[p].listening /\ ps[p].port = port}

\* What a GET to http://localhost:port meets: nobody listening, or the
\* listener's answer.
Probe(ps, port) ==
    IF Listeners(ps, port) = {} THEN ConnectionError
    ELSE LET p == CHOOSE q \in Listeners(ps, port) : TRUE
         IN CASE ps[p].beh.answer = "200" -> Response(200)
              [] ps[p].beh.answer = "500" -> Response(500)
              [] OTHER                    -> Silent

CurrentSetup == setups[setupIdx]

(***************************************************************************)
(* checkServerHealth: the verdict of one health check.  "pending" is a     *)
(* promise that never settles.                                             *)
(*   js, legacy: resolve(res.statusCode === 200) on a response,            *)
(*           resolve(false) on a request error; req.setTimeout is called   *)
(*           without a handler, so a silent server settles nothing.        *)
(*   cpp:    curl_easy_perform(...) == CURLE_OK with CURLOPT_TIMEOUT 1,    *)
(*           CURLOPT_FAILONERROR (a status >= 400 is an error) and         *)
(*           CURLOPT_FOLLOWLOCATION (a 3xx without a Location header is    *)
(*           the final response).                                          *)
(***************************************************************************)
checkServerHealth(im, response) ==
    IF im \in JsImpls
    THEN CASE response.kind = "response" ->
                 IF response.status = 200 THEN "true" ELSE "false"
           [] response.kind = "silent"   -> "pending"
           [] OTHER                      -> "false"
    ELSE CASE response.kind = "response" ->
                 IF response.status < 400 THEN "true" ELSE "false"
           [] OTHER                      -> "false"

(***************************************************************************)
(* The server environment: the server just started binds its port at some *)
(* moment of the warm-up or of the health polling; if the port is taken    *)
(* the server exits (listen error -> process.exit(1)).                     *)
(***************************************************************************)
ServerBinds ==
    \E p \in DOMAIN procs :
        /\ pc \in {"warmup", "waitForServer"}
        /\ p = serverProcess.pid
        /\ procs[p].beh.binds
        /\ ~procs[p].listening
        /\ procs' = IF Listeners(procs, procs[p].port) = {}
                    THEN [procs EXCEPT ![p].listening = TRUE]
                    ELSE Remove(procs, p)
        /\ UNCHANGED << impl, pc, setupIdx, run, runs, results, serverProcess,
                        i, checks, req, serverReady, processed, succeeded, statsCalls, report >>
        /\ UNCHANGED << written, resultsFile, exitStatus, calcVars, toolVars >>

(***************************************************************************)
(* runAllBenchmarks: head of the loop over the setups.                     *)
(***************************************************************************)
RunAllBenchmarks ==
    /\ pc = "runAll"
    /\ IF setupIdx <= Len(setups)
       THEN /\ processed' = Append(processed, setupIdx)
            /\ UNCHANGED succeeded
            /\ run' = 1
            /\ runs' = <<>>
            /\ pc' = "loop"
       ELSE /\ pc' = "generateReport"
            /\ UNCHANGED << processed, succeeded, run, runs >>
    /\ UNCHANGED << impl, setupIdx, results, serverProcess, procs, i, checks,
                    req, serverReady, statsCalls, report >>
    /\ UNCHANGED << written, resultsFile, exitStatus, calcVars, toolVars >>

(***************************************************************************)
(* runSingleBenchmark / runBenchmark: head of the loop over the runs.      *)
(***************************************************************************)
RunLoop ==
    /\ pc = "loop"
    /\ pc' = IF run <= ConfigRuns THEN "spawn" ELSE "aggregate"
    /\ UNCHANGED << impl, setupIdx, run, runs, results, serverProcess, procs,
                    i, checks, req, serverReady, processed, succeeded, statsCalls, report >>
    /\ UNCHANGED << written, resultsFile, exitStatus, calcVars, toolVars >>

(***************************************************************************)
(* Start the server.  JS: spawn(runtime, [script]) returns a handle at     *)
(* once; when the runtime binary is missing the handle has no process and  *)
(* an 'error' event is queued.  C++: startServer forks; fork failure gives *)
(* -1 and the run is skipped; a failed execlp makes the child exit(1), so  *)
(* the parent holds the pid of a process that is already gone.             *)
(***************************************************************************)
\* The servers of earlier runs that survived their stop.
Stubborn(ps) == {p \in DOMAIN ps : ps[p].beh.ignoresTerm}

\* At most MaxStubborn of the servers of one execution ignore SIGTERM.
StartOk ==
    /\ pc = "spawn"
    /\ \E b \in ServerBehaviours :
         /\ b.ignoresTerm => Cardinality(Stubborn(procs)) < MaxStubborn
         /\ procs' = procs @@ (Pid(setupIdx, run) :>
                       [port |-> CurrentSetup.port, beh |-> b, listening |-> FALSE])
    /\ serverProcess' = [pid |-> Pid(setupIdx, run), spawned |-> TRUE,
                         killed |-> FALSE, sent |-> <<>>]
    /\ serverReady' = FALSE
    /\ pc' = "warmup"
    /\ UNCHANGED << impl, setupIdx, run, runs, results, i, checks, req,
                    processed, succeeded, statsCalls, report >>
    /\ UNCHANGED << written, resultsFile, exitStatus, calcVars, toolVars >>

StartNoBinary ==
    /\ pc = "spawn"
    /\ serverProcess' = [pid |-> Pid(setupIdx, run), spawned |-> (impl = "cpp"),
                         killed |-> FALSE, sent |-> <<>>]
    /\ serverReady' = FALSE
    /\ pc' = "warmup"
    /\ UNCHANGED << impl, setupIdx, run, runs, results, procs, i, checks, req,
                    processed, succeeded, statsCalls, report >>
    /\ UNCHANGED << written, resultsFile, exitStatus, calcVars, toolVars >>

StartForkFails ==
    /\ pc = "spawn"
    /\ impl = "cpp"
    /\ serverProcess' = NoProcess
    /\ serverReady' = FALSE
    /\ run' = run + 1
    /\ pc' = "loop"
    /\ UNCHANGED << impl, setupIdx, runs, results, procs, i, checks, req,
                    processed, succeeded, statsCalls, report >>
    /\ UNCHANGED << written, resultsFile, exitStatus, calcVars, toolVars >>

(***************************************************************************)
(* The warm-up sleep.  In the JS harnesses the queued 'error' event of a   *)
(* failed spawn is emitted during this sleep; the handle has no 'error'    *)
(* listener, so the event is thrown as an uncaught exception and the       *)
(* harness process ends.                                                   *)
(***************************************************************************)
Warmup ==
    /\ pc = "warmup"
    /\ IF impl \in JsImpls /\ ~serverProcess.spawned
       THEN /\ pc' = "crashed"
            /\ exitStatus' = 1
            /\ UNCHANGED << i, checks >>
       ELSE /\ pc' = "waitForServer"
            /\ i' = 0
            /\ checks' = 0
            /\ UNCHANGED exitStatus
    /\ UNCHANGED << impl, setupIdx, run, runs, results, serverProcess, procs,
                    req, serverReady, processed, succeeded, statsCalls, report >>
    /\ UNCHANGED << written, resultsFile, calcVars, toolVars >>

(***************************************************************************)
(* waitForServer(port): for (i = 0; i < attempts; i++) { if (check) return *)
(* true; sleep(500) } return false.  The run loop calls it without a       *)
(* maxAttempts argument, so attempts is the configured default.            *)
(***************************************************************************)
Attempts(maxAttempts) ==
    IF maxAttempts = 0 THEN MaxStartupAttempts ELSE maxAttempts

\* The loop condition off by one.
MoreAttemptsOffByOne(k, attempts) == k <= attempts

\* The loop condition i < attempts.
MoreAttempts(k, attempts) == k < attempts

WaitForServer ==
    /\ pc = "waitForServer"
    /\ IF MoreAttempts(i, Attempts(0))
       THEN /\ req' = Probe(procs, CurrentSetup.port)
            /\ checks' = checks + 1
            /\ pc' = "checkServerHealth"
            /\ UNCHANGED serverReady
       ELSE /\ serverReady' = FALSE
            /\ pc' = "stop"
            /\ UNCHANGED << req, checks >>
    /\ UNCHANGED << impl, setupIdx, run, runs, results, serverProcess, procs,
                    i, processed, succeeded, statsCalls, report >>
    /\ UNCHANGED << written, resultsFile, exitStatus, calcVars, toolVars >>

\* The health check in flight settles; a pending one never does.
CheckServerHealth ==
    /\ pc = "checkServerHealth"
    /\ checkServerHealth(impl, req) # "pending"
    /\ IF checkServerHealth(impl, req) = "true"
       THEN /\ serverReady' = TRUE
            /\ pc' = "measure"
            /\ UNCHANGED i
       ELSE /\ i' = i + 1
            /\ pc' = "waitForServer"
            /\ UNCHANGED serverReady
    /\ req' = NoRequest
    /\ UNCHANGED << impl, setupIdx, run, runs, results, serverProcess, procs,
                    checks, processed, succeeded, statsCalls, report >>
    /\ UNCHANGED << written, resultsFile, exitStatus, calcVars, toolVars >>

(***************************************************************************)
(* The load test (autocannon / wrk) inside try/catch: a result is pushed   *)
(* onto runs, or the call throws and the catch block only logs.            *)
(***************************************************************************)
Measure ==
    /\ pc = "measure"
    /\ \/ /\ \E r \in RunResults : runs' = Append(runs, r)
          /\ succeeded' = [succeeded EXCEPT ![setupIdx] = @ + 1]
       \/ UNCHANGED << runs, succeeded >>
    /\ pc' = "stop"
    /\ UNCHANGED << impl, setupIdx, run, results, serverProcess, procs, i,
                    checks, req, serverReady, processed, statsCalls, report >>
    /\ UNCHANGED << written, resultsFile, exitStatus, calcVars, toolVars >>

(***************************************************************************)
(* Stopping the server, on the not-ready path and after the measurement.   *)
(*   js:     kill("SIGTERM"); sleep(1000); if (!killed) kill("SIGKILL")    *)
(*   legacy: kill()                                                        *)
(*   cpp:    stopServer: kill(pid, SIGTERM); waitpid(pid, &status, 0)      *)
(* The not-ready path then continues with the next run; the other path     *)
(* sleeps the cool-down first.                                             *)
(***************************************************************************)
AfterStop == IF serverReady THEN "cooldown" ELSE "continue"

\* SendTerm as it would be if the not-ready path forgot to signal the server.
SendTermNotReadyForgotten ==
    /\ pc = "stop"
    /\ IF ~serverReady
       THEN /\ pc' = AfterStop
            /\ UNCHANGED << serverProcess, procs >>
       ELSE IF impl = "cpp"
       THEN /\ serverProcess' = [serverProcess EXCEPT !.sent = Append(@, "SIGTERM")]
            /\ procs' = Deliver(procs, serverProcess.pid, "SIGTERM")
            /\ pc' = "waitpid"
       ELSE /\ serverProcess' = KillHandle(serverProcess, procs, "SIGTERM")
            /\ procs' = KillProcs(serverProcess, procs, "SIGTERM")
            /\ pc' = IF impl = "js" THEN "graceSleep" ELSE AfterStop
    /\ UNCHANGED << impl, setupIdx, run, runs, results, i, checks, req,
                    serverReady, processed, succeeded, statsCalls, report >>
    /\ UNCHANGED << written, resultsFile, exitStatus, calcVars, toolVars >>

SendTerm ==
    /\ pc = "stop"
    /\ IF impl = "cpp"
       THEN /\ serverProcess' = [serverProcess EXCEPT !.sent = Append(@, "SIGTERM")]
            /\ procs' = Deliver(procs, serverProcess.pid, "SIGTERM")
            /\ pc' = "waitpid"
       ELSE /\ serverProcess' = KillHandle(serverProcess, procs, "SIGTERM")
            /\ procs' = KillProcs(serverProcess, procs, "SIGTERM")
            /\ pc' = IF impl = "js" THEN "graceSleep" ELSE AfterStop
    /\ UNCHANGED << impl, setupIdx, run, runs, results, i, checks, req,
                    serverReady, processed, succeeded, statsCalls, report >>
    /\ UNCHANGED << written, resultsFile, exitStatus, calcVars, toolVars >>

\* if (!serverProcess.killed) serverProcess.kill("SIGKILL")
NeedsKill(h) == ~h.killed

GraceSleep ==
    /\ pc = "graceSleep"
    /\ IF NeedsKill(serverProcess)
       THEN /\ serverProcess' = KillHandle(serverProcess, procs, "SIGKILL")
            /\ procs' = KillProcs(serverProcess, procs, "SIGKILL")
       ELSE UNCHANGED << serverProcess, procs >>
    /\ pc' = AfterStop
    /\ UNCHANGED << impl, setupIdx, run, runs, results, i, checks, req,
                    serverReady, processed, succeeded, statsCalls, report >>
    /\ UNCHANGED << written, resultsFile, exitStatus, calcVars, toolVars >>

\* waitpid(pid, &status, 0) returns once the child has exited.
Waitpid ==
    /\ pc = "waitpid"
    /\ serverProcess.pid \notin DOMAIN procs
    /\ pc' = AfterStop
    /\ UNCHANGED << impl, setupIdx, run, runs, results, serverProcess, procs,
                    i, checks, req, serverReady, processed, succeeded, statsCalls, report >>
    /\ UNCHANGED << written, resultsFile, exitStatus, calcVars, toolVars >>

\* The locals of one loop iteration (the handle, waitForServer's counter)
\* go out of scope when the iteration ends.
EndOfIteration ==
    /\ serverProcess' = NoProcess
    /\ serverReady' = FALSE
    /\ i' = 0
    /\ checks' = 0

\* `continue` on the not-ready path: straight to the next run.
Continue ==
    /\ pc = "continue"
    /\ run' = run + 1
    /\ EndOfIteration
    /\ pc' = "loop"
    /\ UNCHANGED << impl, setupIdx, runs, results, procs, req, processed, succeeded,
                    statsCalls, report >>
    /\ UNCHANGED << written, resultsFile, exitStatus, calcVars, toolVars >>

(***************************************************************************)
(* Statistics over the runs of one setup.  A mean is kept as the exact     *)
(* fraction sum/n.                                                         *)
(***************************************************************************)
RECURSIVE SumOf(_, _)
SumOf(rs, field) ==
    IF rs = <<>> THEN 0 ELSE Head(rs)[field] + SumOf(Tail(rs), field)

\* values.reduce((sum, val) => sum + val, 0) / n
Average(rs, field) == [num |-> SumOf(rs, field), den |-> Len(rs)]

\* reduce((sum, val) => sum + Math.pow(val - avg, 2), 0) / n, the value
\* under the square root, with avg the fraction avg.num / avg.den.
RECURSIVE SumSquaredDeviations(_, _, _)
SumSquaredDeviations(rs, field, avg) ==
    IF rs = <<>> THEN 0
    ELSE (Head(rs)[field] * avg.den - avg.num) * (Head(rs)[field] * avg.den - avg.num)
            + SumSquaredDeviations(Tail(rs), field, avg)

StdDevSquared(rs, field, avg) ==
    [num |-> SumSquaredDeviations(rs, field, avg), den |-> avg.den * avg.den * Len(rs)]

\* The counts as they would be if they were averaged like the rates.
TotalAveraged(rs, field) == SumOf(rs, field) \div Len(rs)

\* runs.reduce((sum, r) => sum + r.count, 0)
Total(rs, field) == SumOf(rs, field)

\* calculateStats of scripts/benchmark.js.  stdRps and stdLatency hold the
\* value under Math.sqrt.
calculateStats(rs) ==
    [requestsPerSecond |-> Average(rs, "requestsPerSecond"),
     stdRps            |-> StdDevSquared(rs, "requestsPerSecond",
                                         Average(rs, "requestsPerSecond")),
     latency           |-> Average(rs, "latency"),
     p50               |-> Average(rs, "p50"),
     p90               |-> Average(rs, "p90"),
     p95               |-> Average(rs, "p95"),
     p99               |-> Average(rs, "p99"),
     stdLatency        |-> StdDevSquared(rs, "latency", Average(rs, "latency")),
     throughput        |-> Average(rs, "throughput"),
     totalRequests     |-> Total(rs, "totalRequests"),
     totalErrors       |-> Total(rs, "errors") + Total(rs, "timeouts")
                              + Total(rs, "non2xx")]

\* The statistics of the legacy script, computed inline in runBenchmark.
legacyStats(rs) ==
    [requestsPerSecond |-> Average(rs, "requestsPerSecond"),
     stdRps            |-> StdDevSquared(rs, "requestsPerSecond",
                                         Average(rs, "requestsPerSecond")),
     latency           |-> Average(rs, "latency"),
     stdLatency        |-> StdDevSquared(rs, "latency", Average(rs, "latency")),
     throughput        |-> Average(rs, "throughput"),
     errors            |-> Total(rs, "errors")]

(***************************************************************************)
(* The statistics of benchmark_wrk.cpp: vectors of the per-run values,     *)
(* calculateMean, calculateStdDev; throughput and the counts accumulated   *)
(* in the same loop.                                                       *)
(***************************************************************************)
Values(rs, field) == [k \in 1..Len(rs) |-> rs[k][field]]

RECURSIVE Sum(_)
Sum(values) == IF values = <<>> THEN 0 ELSE Head(values) + Sum(Tail(values))

calculateMean(values) == [num |-> Sum(values), den |-> Len(values)]

RECURSIVE SquaredDeviations(_, _)
SquaredDeviations(values, mean) ==
    IF values = <<>> THEN 0
    ELSE (Head(values) * mean.den - mean.num) * (Head(values) * mean.den - mean.num)
            + SquaredDeviations(Tail(values), mean)

\* The deviation as it would be for a sample: divided by N - 1.
calculateStdDevSample(values, mean) ==
    [num |-> SquaredDeviations(values, mean),
     den |-> mean.den * mean.den * (Len(values) - 1)]

\* std::sqrt(sum / values.size()): the value under the square root.
calculateStdDev(values, mean) ==
    [num |-> SquaredDeviations(values, mean),
     den |-> mean.den * mean.den * Len(values)]

runBenchmarkStats(rs) ==
    [requestsPerSecond |-> calculateMean(Values(rs, "requestsPerSecond")),
     latency           |-> calculateMean(Values(rs, "latency")),
     p50               |-> calculateMean(Values(rs, "p50")),
     p90               |-> calculateMean(Values(rs, "p90")),
     p99               |-> calculateMean(Values(rs, "p99")),
     throughput        |-> [num |-> Sum(Values(rs, "throughput")), den |-> Len(rs)],
     totalRequests     |-> Sum(Values(rs, "totalRequests")),
     errors            |-> Sum(Values(rs, "errors")),
     timeouts          |-> Sum(Values(rs, "timeouts")),
     stdRps            |-> calculateStdDev(Values(rs, "requestsPerSecond"),
                                           calculateMean(Values(rs, "requestsPerSecond"))),
     stdLatency        |-> calculateStdDev(Values(rs, "latency"),
                                           calculateMean(Values(rs, "latency")))]

\* The statistics each implementation computes for a run list.
StatsOf(im, rs) ==
    CASE im = "js"     -> calculateStats(rs)
      [] im = "legacy" -> legacyStats(rs)
      [] OTHER         -> runBenchmarkStats(rs)

\* The guard as it would be if it let an empty run list through.
HasRunsAlways(rs) == Len(rs) >= 0

\* if (runs.length > 0) / if (!runs.empty())
HasRuns(rs) == Len(rs) > 0

\* The aggregate pushed onto results; the legacy script keeps no raw runs.
AggregatedResult(im, s, rs) ==
    [setup             |-> s,
     framework         |-> setups[s].framework,
     runtime           |-> setups[s].runtime,
     requestsPerSecond |-> StatsOf(im, rs).requestsPerSecond,
     latency           |-> StatsOf(im, rs).latency,
     runs              |-> Len(rs),
     rawRuns           |-> IF im = "legacy" THEN <<>> ELSE rs]

\* End of runSingleBenchmark / runBenchmark: push the aggregate if any run
\* succeeded, then return to the loop over the setups.
Aggregate ==
    /\ pc = "aggregate"
    /\ IF HasRuns(runs)
       THEN /\ results' = Append(results, AggregatedResult(impl, setupIdx, runs))
            /\ statsCalls' = Append(statsCalls, Len(runs))
       ELSE UNCHANGED << results, statsCalls >>
    /\ setupIdx' = setupIdx + 1
    /\ pc' = "runAll"
    /\ UNCHANGED << impl, run, runs, serverProcess, procs, i, checks, req,
                    serverReady, processed, succeeded, report >>
    /\ UNCHANGED << written, resultsFile, exitStatus, calcVars, toolVars >>

(***************************************************************************)
(* generateReport: sort results by requests/sec descending and derive the  *)
(* rankings.  Array.prototype.sort is stable; std::sort leaves the order   *)
(* of equal elements unspecified.                                          *)
(***************************************************************************)
FracLess(a, b) == a.num * b.den < b.num * a.den

\* The comparators as they would be with requests/sec ascending.
BeforeRpsAscending(a, b, by) ==
    IF by = "requestsPerSecond"
    THEN FracLess(a.requestsPerSecond, b.requestsPerSecond)
    ELSE FracLess(a.latency, b.latency)

\* The comparators: requests/sec descending, average latency ascending.
Before(a, b, by) ==
    IF by = "requestsPerSecond"
    THEN FracLess(b.requestsPerSecond, a.requestsPerSecond)
    ELSE FracLess(a.latency, b.latency)

Perms(n) == {f \in [1..n -> 1..n] : \A x, y \in 1..n : f[x] = f[y] => x = y}

\* Orders (as index permutations) a comparison sort may leave seq in:
\* no element stands before one that must precede it.
SortOrders(seq, by) ==
    {f \in Perms(Len(seq)) :
        \A x, y \in 1..Len(seq) : x < y => ~Before(seq[f[y]], seq[f[x]], by)}

\* The order a stable sort leaves: equal elements keep their positions.
StableOrder(seq, by) ==
    CHOOSE f \in SortOrders(seq, by) :
        \A x, y \in 1..Len(seq) :
            (x < y /\ ~Before(seq[f[x]], seq[f[y]], by)) => f[x] < f[y]

Permute(seq, f) == [k \in 1..Len(seq) |-> seq[f[k]]]

Ranking(seq, field) ==
    [k \in 1..Len(seq) |->
        [rank |-> k, setup |-> seq[k].setup, value |-> seq[k][field]]]

(***************************************************************************)
(* generateComparisons: group the results by framework and runtime (a      *)
(* later entry of the same framework and runtime replaces an earlier one); *)
(* a framework with both a node and a bun entry gets                       *)
(*     improvement = ((bunRps - nodeRps) / nodeRps) * 100                  *)
(* kept as the exact fraction num/den, den = 0 standing for a division by  *)
(* zero.                                                                   *)
(***************************************************************************)
Frameworks(rs) == {rs[k].framework : k \in 1..Len(rs)}

\* The positions of the entries of a framework and runtime.
Entries(rs, framework, runtime) ==
    {k \in 1..Len(rs) : rs[k].framework = framework /\ rs[k].runtime = runtime}

\* byFramework[framework][runtime]: the last entry of that framework and
\* runtime.
ByFramework(rs, framework, runtime) ==
    rs[CHOOSE k \in Entries(rs, framework, runtime) :
           \A j \in Entries(rs, framework, runtime) : j <= k]

\* The improvement as it would be if it were taken relative to bun.
ImprovementOverBun(nodeRps, bunRps) ==
    [num |-> (bunRps.num * nodeRps.den - nodeRps.num * bunRps.den) * 100,
     den |-> nodeRps.den * bunRps.num]

Improvement(nodeRps, bunRps) ==
    [num |-> (bunRps.num * nodeRps.den - nodeRps.num * bunRps.den) * 100,
     den |-> bunRps.den * nodeRps.num]

\* if (runtimes.node && runtimes.bun)
HasBothRuntimes(rs, f) ==
    Entries(rs, f, "node") # {} /\ Entries(rs, f, "bun") # {}

generateComparisons(rs) ==
    [f \in {g \in Frameworks(rs) : HasBothRuntimes(rs, g)} |->
        LET node == ByFramework(rs, f, "node")
            bun  == ByFramework(rs, f, "bun")
            improvement == Improvement(node.requestsPerSecond, bun.requestsPerSecond)
        IN [node |-> node.requestsPerSecond,
            bun |-> bun.requestsPerSecond,
            percentage |-> improvement,
            description |-> IF \/ improvement.num * improvement.den > 0
                               \/ improvement.den = 0 /\ improvement.num > 0
                            THEN "faster" ELSE "slower"]]

\* The time at which getSystemInfo reads the clock (new Date()), counted in
\* the warm-up sleeps that have ended since runAllBenchmarks read it first:
\* every run that produced a result has slept warmupTime before.
Now == Sum(succeeded)

\* The report object built from the sorted results and the system
\* information read at time t.  Only scripts/benchmark.js derives a latency
\* ranking.
generateReport(im, rs, t) ==
    [built |-> TRUE,
     timestamp |-> t,
     results |-> rs,
     byRequestsPerSecond |-> Ranking(rs, "requestsPerSecond"),
     byLatency |->
        IF im = "js"
        THEN Ranking(Permute(rs, StableOrder(rs, "latency")), "latency")
        ELSE <<>>,
     comparisons |-> generateComparisons(rs)]

\* runAllBenchmarks and the other harnesses read the system information
\* before their first run.
ReportOf(im, rs) == generateReport(im, rs, 0)


GenerateReport ==
    /\ pc = "generateReport"
    /\ \E f \in SortOrders(results, "requestsPerSecond") :
         /\ impl \in JsImpls => f = StableOrder(results, "requestsPerSecond")
         /\ results' = Permute(results, f)
    /\ report' = ReportOf(impl, results')
    /\ pc' = "saveResults"
    /\ UNCHANGED << impl, setupIdx, run, runs, serverProcess, procs, i, checks,
                    req, serverReady, processed, succeeded, statsCalls >>
    /\ UNCHANGED << written, resultsFile, exitStatus, calcVars, toolVars >>

(***************************************************************************)
(* saveResults and the end of main.                                        *)
(*   js:     saveResults builds the report again and calls writeFileSync;  *)
(*           an exception reaches the catch of main -> process.exit(1).    *)
(*   legacy: writeFileSync inside main(); main().catch(console.error) logs *)
(*           the rejection and the process ends with status 0.             *)
(*   cpp:    two ofstreams written without any state check; main returns 0.*)
(***************************************************************************)
ExitAfterSave(im, ok) == IF im = "js" /\ ~ok THEN 1 ELSE 0

SaveResults ==
    /\ pc = "saveResults"
    /\ \E ok \in BOOLEAN :
         /\ written' = IF ok THEN "yes" ELSE "failed"
         /\ exitStatus' = ExitAfterSave(impl, ok)
         /\ IF impl = "js"
            THEN /\ results' = Permute(results, StableOrder(results, "requestsPerSecond"))
                 /\ resultsFile' = IF ok THEN generateReport(impl, results', Now) ELSE NoReport
            ELSE /\ UNCHANGED results
                 /\ resultsFile' = IF ok THEN report ELSE NoReport
    /\ pc' = "done"
    /\ UNCHANGED << report, impl, setupIdx, run, runs, serverProcess, procs, i, checks,
                    req, serverReady, processed, succeeded, statsCalls, calcVars, toolVars >>

(***************************************************************************)
(* A signal (SIGINT, SIGTERM) sent to the harness.  No implementation      *)
(* installs a handler, so the default disposition ends the harness at      *)
(* once and its memory is gone.  The signal reaches the harness alone      *)
(* (kill <pid>) or its whole process group (Ctrl-C in a terminal); a       *)
(* server shuts down on SIGINT as it does on SIGTERM.                      *)
(***************************************************************************)
SignalGroup(ps) == [p \in {q \in DOMAIN ps : ps[q].beh.ignoresTerm} |-> ps[p]]

Interrupt ==
    /\ pc \notin {"done", "crashed", "interrupted"}
    /\ pc' = "interrupted"
    /\ exitStatus' = 130
    /\ \E group \in BOOLEAN :
         procs' = IF group THEN SignalGroup(procs) ELSE procs
    /\ setupIdx' = 1
    /\ run' = 1
    /\ runs' = <<>>
    /\ results' = <<>>
    /\ i' = 0
    /\ checks' = 0
    /\ req' = NoRequest
    /\ serverReady' = FALSE
    /\ processed' = <<>>
    /\ succeeded' = [s \in 1..NumSetups |-> 0]
    /\ statsCalls' = <<>>
    /\ report' = NoReport
    /\ UNCHANGED << impl, serverProcess, written, resultsFile, calcVars, toolVars >>

\* sleep(cooldownTime), then the next run.
Cooldown ==
    /\ pc = "cooldown"
    /\ run' = run + 1
    /\ EndOfIteration
    /\ pc' = "loop"
    /\ UNCHANGED << impl, setupIdx, runs, results, procs, req, processed, succeeded,
                    statsCalls, report >>
    /\ UNCHANGED << written, resultsFile, exitStatus, calcVars, toolVars >>

Next ==
    \/ RunAllBenchmarks
    \/ RunLoop
    \/ StartOk
    \/ StartNoBinary
    \/ StartForkFails
    \/ Warmup
    \/ WaitForServer
    \/ CheckServerHealth
    \/ Measure
    \/ SendTerm
    \/ GraceSleep
    \/ Waitpid
    \/ Continue
    \/ Cooldown
    \/ Aggregate
    \/ GenerateReport
    \/ SaveResults
    \/ Interrupt
    \/ ServerBinds

Spec == Init /\ [][Next]_vars

(***************************************************************************)
(* Function-level evaluation: one function of the harness is applied to an *)
(* argument drawn from a bounded set, outside any benchmark run.           *)
(***************************************************************************)
IdleHarness ==
    /\ impl = "js"
    /\ pc = "calc"
    /\ setupIdx = 1
    /\ run = 1
    /\ runs = <<>>
    /\ results = <<>>
    /\ serverProcess = NoProcess
    /\ procs = << >>
    /\ i = 0
    /\ checks = 0
    /\ req = NoRequest
    /\ serverReady = FALSE
    /\ processed = <<>>
    /\ succeeded = [s \in 1..NumSetups |-> 0]
    /\ statsCalls = <<>>
    /\ report = NoReport
    /\ written = "no"
    /\ resultsFile = NoReport
    /\ exitStatus = -1

Result(v) == [set |-> TRUE, value |-> v]

(***************************************************************************)
(* checkServerHealth applied to one response or connection error.          *)
(***************************************************************************)
StatusCodes == {200, 201, 204, 299, 300, 304, 400, 404, 500, 503}

HealthInputs ==
    [impl : Impls, response : {Response(c) : c \in StatusCodes} \cup {ConnectionError}]

ApplyCheckServerHealth ==
    /\ fn = "checkServerHealth"
    /\ ~output.set
    /\ output' = Result(checkServerHealth(input.impl, input.response))
    /\ UNCHANGED << harnessVars, toolVars, fn, input >>

(***************************************************************************)
(* The stop sequence of the run loop as one call on a handle, applied once *)
(* and then a second time to the same handle:                              *)
(*   js:     kill("SIGTERM"); sleep(1000); if (!killed) kill("SIGKILL")    *)
(*   legacy: kill()                                                        *)
(*   cpp:    kill(pid, SIGTERM); waitpid(pid, &status, 0)                  *)
(* delivered: the signals that reached a process; blocked: the call never  *)
(* returns (waitpid on a child that does not exit).                        *)
(***************************************************************************)
StopCall(im, h, ps) ==
    IF im = "cpp"
    THEN [handle    |-> [h EXCEPT !.sent = Append(@, "SIGTERM")],
          procs     |-> Deliver(ps, h.pid, "SIGTERM"),
          delivered |-> IF h.pid \in DOMAIN ps THEN <<"SIGTERM">> ELSE <<>>,
          blocked   |-> h.pid \in DOMAIN Deliver(ps, h.pid, "SIGTERM")]
    ELSE LET h1  == KillHandle(h, ps, "SIGTERM")
             ps1 == KillProcs(h, ps, "SIGTERM")
             escalate == im = "js" /\ NeedsKill(h1)
             h2  == IF escalate THEN KillHandle(h1, ps1, "SIGKILL") ELSE h1
             ps2 == IF escalate THEN KillProcs(h1, ps1, "SIGKILL") ELSE ps1
         IN [handle    |-> h2,
             procs     |-> ps2,
             delivered |-> SubSeq(h2.sent, Len(h.sent) + 1, Len(h2.sent)),
             blocked   |-> FALSE]

\* A handle (pid 1) and the process table it is stopped in: its process is
\* running with some behaviour, or has already exited.
StopInputs ==
    { [impl |-> im,
       handle |-> [pid |-> 1, spawned |-> TRUE, killed |-> FALSE, sent |-> <<>>],
       procs |-> ps] :
        im \in Impls,
        ps \in { (1 :> [port |-> 3000, beh |-> b, listening |-> l]) :
                     b \in ServerBehaviours, l \in BOOLEAN } \cup { << >> } }

StopServer ==
    /\ fn = "stop"
    /\ IF ~output.set
       THEN LET r == StopCall(input.impl, input.handle, input.procs)
            IN output' = Result([calls |-> 1, handle |-> r.handle, procs |-> r.procs,
                                 first |-> r.delivered, delivered |-> r.delivered,
                                 blocked |-> r.blocked])
       ELSE /\ output.value.calls = 1
            /\ ~output.value.blocked
            /\ LET r == StopCall(input.impl, output.value.handle, output.value.procs)
               IN output' = Result([calls |-> 2, handle |-> r.handle, procs |-> r.procs,
                                    first |-> output.value.first,
                                    delivered |-> output.value.delivered \o r.delivered,
                                    blocked |-> r.blocked])
    /\ UNCHANGED << harnessVars, toolVars, fn, input >>

(***************************************************************************)
(* The statistics applied to a list of 1..MaxRuns run results; besides the *)
(* measurements of the run loop, a run in which every request failed.      *)
(***************************************************************************)
RunSamples ==
    RunResults \cup
    { [requestsPerSecond |-> 0, latency |-> 0, p50 |-> 0, p90 |-> 0, p95 |-> 0,
       p99 |-> 0, throughput |-> 0, totalRequests |-> 0, errors |-> 10,
       timeouts |-> 10, non2xx |-> 0] }

RunLists == UNION {[1..n -> RunSamples] : n \in 1..MaxRuns}

StatsInputs == [impl : Impls, runs : RunLists]

ApplyCalculateStats ==
    /\ fn = "calculateStats"
    /\ ~output.set
    /\ output' = Result(StatsOf(input.impl, input.runs))
    /\ UNCHANGED << harnessVars, toolVars, fn, input >>

(***************************************************************************)
(* parseWrkOutput.  A text is a sequence of lines and a line a sequence of *)
(* tokens: a word, a run of n whitespace characters, a decimal number      *)
(* n / d (d = 1: digits only), the word characters that follow a number    *)
(* without a space (its unit), or a percent sign.                          *)
(***************************************************************************)
Word(w) == [k |-> "word", s |-> w, n |-> 0, d |-> 1]
Space(n) == [k |-> "space", s |-> "", n |-> n, d |-> 1]
Number(n, d) == [k |-> "number", s |-> "", n |-> n, d |-> d]
Unit(u) == [k |-> "unit", s |-> u, n |-> 0, d |-> 1]
Percent == [k |-> "percent", s |-> "", n |-> 0, d |-> 1]

\* The elements of the regular expressions, token by token.
MatchesElement(token, element) ==
    CASE element = "\\s+"        -> token.k = "space"
      [] element = " "          -> token.k = "space" /\ token.n = 1
      [] element = "\\d+"        -> token.k = "number" /\ token.d = 1
      [] element = "[0-9.]+"    -> token.k = "number"
      [] element = "\\w+"        -> token.k = "unit"
      [] element = "KB|MB|GB"   -> token.k = "unit" /\ token.s \in {"KB", "MB", "GB"}
      [] element = "%"          -> token.k = "percent"
      [] OTHER                  -> token.k = "word" /\ token.s = element

rpsRegex == << "Requests/sec:", "\\s+", "[0-9.]+" >>
transferRegex == << "Transfer/sec:", "\\s+", "[0-9.]+", "KB|MB|GB" >>
totalRegex == << "\\d+", " ", "requests", " ", "in" >>
latencyRegex ==
    << "Latency", "\\s+", "[0-9.]+", "\\w+", "\\s+", "[0-9.]+", "\\w+",
       "\\s+", "[0-9.]+", "\\w+", "\\s+", "[0-9.]+", "%" >>
percentileRegex == << "\\s+", "\\d+", "%", "\\s+", "[0-9.]+", "\\w+" >>
socketErrorRegex ==
    << "Socket errors: connect", " ", "\\d+", ", read", " ", "\\d+",
       ", write", " ", "\\d+", ", timeout", " ", "\\d+" >>
nonErrorRegex == << "Non-2xx or 3xx responses:", " ", "\\d+" >>

MatchesAt(line, regex, p) ==
    /\ p + Len(regex) - 1 <= Len(line)
    /\ \A j \in 1..Len(regex) : MatchesElement(line[p + j - 1], regex[j])

\* std::regex_search: the position of the leftmost match, 0 without one.
regex_search(line, regex) ==
    IF \E p \in 1..Len(line) : MatchesAt(line, regex, p)
    THEN CHOOSE p \in 1..Len(line) :
            /\ MatchesAt(line, regex, p)
            /\ \A q \in 1..(p - 1) : ~MatchesAt(line, regex, q)
    ELSE 0

(***************************************************************************)
(* The double values of the C++ harness.  A double other than zero is its  *)
(* 53 binary digits m (most significant first, the first one 1) and the    *)
(* exponent e of the last digit: its value is m * 2^e.  Each operation     *)
(* gives the exact result rounded to the nearest double, ties to the even  *)
(* one (IEEE 754, the rounding mode a C++ program starts with).  The       *)
(* magnitudes wrk prints are far from the subnormal and infinite ranges.   *)
(***************************************************************************)
DBL_MANT_DIG == 53

DoubleZero == [m |-> <<>>, e |-> 0]

Zeros(n) == [k \in 1..n |-> 0]

\* The digits without their leading zeros.
Strip(bits) ==
    IF \A k \in 1..Len(bits) : bits[k] = 0 THEN <<>>
    ELSE SubSeq(bits, CHOOSE k \in 1..Len(bits) :
                         bits[k] = 1 /\ \A j \in 1..(k - 1) : bits[j] = 0,
                Len(bits))

\* Digits are handled eight at a time: the value of eight digits, the eight
\* digits of a value below 256, and the digits filled up with leading
\* zeros to a multiple of eight.
ChunkValue(chunk) ==
    128 * chunk[1] + 64 * chunk[2] + 32 * chunk[3] + 16 * chunk[4]
       + 8 * chunk[5] + 4 * chunk[6] + 2 * chunk[7] + chunk[8]

ChunkBits(v) ==
    << (v \div 128) % 2, (v \div 64) % 2, (v \div 32) % 2, (v \div 16) % 2,
       (v \div 8) % 2, (v \div 4) % 2, (v \div 2) % 2, v % 2 >>

Pad(bits) == Zeros((8 - (Len(bits) % 8)) % 8) \o bits

\* The binary digits of a natural number below 2^32, most significant
\* first.
Bits(n) ==
    Strip(ChunkBits(n \div 16777216) \o ChunkBits((n \div 65536) % 256)
             \o ChunkBits((n \div 256) % 256) \o ChunkBits(n % 256))

\* The digits of the number plus one.
Increment(bits) ==
    IF \A k \in 1..Len(bits) : bits[k] = 1 THEN << 1 >> \o Zeros(Len(bits))
    ELSE LET z == CHOOSE k \in 1..Len(bits) :
                     bits[k] = 0 /\ \A j \in (k + 1)..Len(bits) : bits[j] = 1
         IN [k \in 1..Len(bits) |-> IF k < z THEN bits[k] ELSE IF k = z THEN 1 ELSE 0]

\* The double nearest to bits * 2^e (plus, with sticky, a fraction of the
\* last digit's unit), bits starting with 1.
RoundToNearestEven(bits, e, sticky) ==
    IF bits = <<>> THEN DoubleZero
    ELSE IF Len(bits) <= DBL_MANT_DIG
    THEN [m |-> bits \o Zeros(DBL_MANT_DIG - Len(bits)),
          e |-> e - (DBL_MANT_DIG - Len(bits))]
    ELSE LET keep == SubSeq(bits, 1, DBL_MANT_DIG)
             rest == \/ sticky
                     \/ \E k \in (DBL_MANT_DIG + 2)..Len(bits) : bits[k] = 1
             up   == /\ bits[DBL_MANT_DIG + 1] = 1
                     /\ rest \/ keep[DBL_MANT_DIG] = 1
             inc  == Increment(keep)
             ee   == e + Len(bits) - DBL_MANT_DIG
         IN IF ~up THEN [m |-> keep, e |-> ee]
            ELSE IF Len(inc) > DBL_MANT_DIG
            THEN [m |-> SubSeq(inc, 1, DBL_MANT_DIG), e |-> ee + 1]
            ELSE [m |-> inc, e |-> ee]

\* bits * 2^e / d rounded: the quotient eight digits at a time, r the
\* remainder and q the digits so far, continued behind the binary point
\* until the quotient is exact or has more digits than a double keeps.
RECURSIVE LongDivision(_, _, _, _, _)
LongDivision(bits, e, d, r, q) ==
    IF bits = <<>> /\ (r = 0 \/ Len(Strip(q)) > DBL_MANT_DIG)
    THEN RoundToNearestEven(Strip(q), e, r # 0)
    ELSE LET t == 256 * r + (IF bits = <<>> THEN 0 ELSE ChunkValue(SubSeq(bits, 1, 8)))
         IN LongDivision(IF bits = <<>> THEN bits ELSE SubSeq(bits, 9, Len(bits)),
                         IF bits = <<>> THEN e - 8 ELSE e,
                         d, t % d, q \o ChunkBits(t \div d))

\* The digits of bits * k + carry, k below 2^23.
RECURSIVE TimesBits(_, _, _)
TimesBits(bits, k, carry) ==
    IF bits = <<>> THEN Bits(carry)
    ELSE LET t == ChunkValue(SubSeq(bits, Len(bits) - 7, Len(bits))) * k + carry
         IN TimesBits(SubSeq(bits, 1, Len(bits) - 8), k, t \div 256)
               \o ChunkBits(t % 256)

\* x * k and x / k for a double x and a whole number k below 2^23 (1000.0).
Times(x, k) ==
    IF x = DoubleZero THEN x
    ELSE RoundToNearestEven(Strip(TimesBits(Pad(x.m), k, 0)), x.e, FALSE)

\* x * 2^n (1024 = 2^10): the same digits, the exponent raised by n.
TimesPowerOfTwo(x, n) == IF x = DoubleZero THEN x ELSE [x EXCEPT !.e = @ + n]

DividedBy(x, k) ==
    IF x = DoubleZero THEN x ELSE LongDivision(Pad(x.m), x.e, k, 0, <<>>)

\* std::stod of a matched number n / d (d a power of ten): the nearest
\* double.
stod(token) == LongDivision(Pad(Bits(token.n)), 0, token.d, 0, <<>>)

parseLatencyValue(value, unit) ==
    LET val == stod(value)
    IN CASE unit = "us" -> DividedBy(val, 1000)
         [] unit = "ms" -> val
         [] unit = "s"  -> Times(val, 1000)
         [] OTHER       -> val

\* BenchmarkResult with its member initialisers.
ZeroResult ==
    [requestsPerSecond |-> DoubleZero,
     avgLatency        |-> DoubleZero,
     maxLatency        |-> DoubleZero,
     p50Latency        |-> DoubleZero,
     p75Latency        |-> DoubleZero,
     p90Latency        |-> DoubleZero,
     p99Latency        |-> DoubleZero,
     throughput        |-> DoubleZero,
     totalRequests     |-> 0,
     errors            |-> 0,
     timeouts          |-> 0,
     socketErrors      |-> 0]

\* A regular expression that does not match a line, as it would be if the
\* line then cleared what earlier lines had set.
UnmatchedClears(result) == ZeroResult

\* A regular expression that does not match a line leaves the result alone.
Unmatched(result) == result

\* The seven tests the loop body applies to one line, in order.
ParseRps(result, line) ==
    LET p == regex_search(line, rpsRegex)
    IN IF p = 0 THEN Unmatched(result)
       ELSE [result EXCEPT !.requestsPerSecond = stod(line[p + 2])]

ParseTransfer(result, line) ==
    LET p == regex_search(line, transferRegex)
    IN IF p = 0 THEN Unmatched(result)
       ELSE LET bytes == stod(line[p + 2])
                unit  == line[p + 3].s
            IN [result EXCEPT !.throughput =
                   CASE unit = "KB" -> TimesPowerOfTwo(bytes, 10)
                     [] unit = "MB" -> TimesPowerOfTwo(bytes, 20)
                     [] OTHER       -> TimesPowerOfTwo(bytes, 30)]

ParseTotal(result, line) ==
    LET p == regex_search(line, totalRegex)
    IN IF p = 0 THEN Unmatched(result)
       ELSE [result EXCEPT !.totalRequests = line[p].n]

ParseLatency(result, line) ==
    LET p == regex_search(line, latencyRegex)
    IN IF p = 0 THEN Unmatched(result)
       ELSE [result EXCEPT
                !.avgLatency = parseLatencyValue(line[p + 2], line[p + 3].s),
                !.maxLatency = parseLatencyValue(line[p + 8], line[p + 9].s)]

ParsePercentile(result, line) ==
    LET p == regex_search(line, percentileRegex)
    IN IF p = 0 THEN Unmatched(result)
       ELSE LET percentile == line[p + 1].n
                value == parseLatencyValue(line[p + 4], line[p + 5].s)
            IN CASE percentile = 50 -> [result EXCEPT !.p50Latency = value]
                 [] percentile = 75 -> [result EXCEPT !.p75Latency = value]
                 [] percentile = 90 -> [result EXCEPT !.p90Latency = value]
                 [] percentile = 99 -> [result EXCEPT !.p99Latency = value]
                 [] OTHER           -> result

ParseSocketErrors(result, line) ==
    LET p == regex_search(line, socketErrorRegex)
    IN IF p = 0 THEN Unmatched(result)
       ELSE LET socketErrors == line[p + 2].n + line[p + 5].n + line[p + 8].n
                timeouts == line[p + 11].n
            IN [result EXCEPT !.socketErrors = socketErrors,
                              !.timeouts = timeouts,
                              !.errors = socketErrors + timeouts]

ParseNonError(result, line) ==
    LET p == regex_search(line, nonErrorRegex)
    IN IF p = 0 THEN Unmatched(result)
       ELSE [result EXCEPT !.errors = @ + line[p + 2].n]

ParseLine(result, line) ==
    ParseNonError(
      ParseSocketErrors(
        ParsePercentile(
          ParseLatency(
            ParseTotal(
              ParseTransfer(
                ParseRps(result, line), line), line), line), line), line), line)

\* The loop over the lines: the result after each line, the first one the
\* BenchmarkResult the function starts with.
RECURSIVE ParseLines(_, _)
ParseLines(parsed, lines) ==
    IF lines = <<>> THEN parsed
    ELSE ParseLines(Append(parsed, ParseLine(parsed[Len(parsed)], Head(lines))),
                    Tail(lines))

parseWrkOutput(text) ==
    LET parsed == ParseLines(<< ZeroResult >>, text)
    IN parsed[Len(parsed)]

(***************************************************************************)
(* Texts the load generator prints.  SampleText is the sample              *)
(*   Requests/sec: 12345.67 / Transfer/sec: 1.50MB / 50% 1.20ms /          *)
(*   90% 3.40ms / 99% 9.90ms / 1000 requests in 10s                        *)
(* with its percentile lines written as given (indent = 0) or indented as  *)
(* wrk prints its latency distribution; OtherLines are lines of wrk that   *)
(* carry other fields or none.                                             *)
(***************************************************************************)
Indented(indent, line) == IF indent = 0 THEN line ELSE << Space(indent) >> \o line

PercentileLine(indent, percentile, n, d) ==
    Indented(indent, << Number(percentile, 1), Percent, Space(1), Number(n, d), Unit("ms") >>)

SampleText(indent) ==
    << << Word("Requests/sec:"), Space(1), Number(1234567, 100) >>,
       << Word("Transfer/sec:"), Space(1), Number(150, 100), Unit("MB") >>,
       PercentileLine(indent, 50, 120, 100),
       PercentileLine(indent, 90, 340, 100),
       PercentileLine(indent, 99, 990, 100),
       << Number(1000, 1), Space(1), Word("requests"), Space(1), Word("in"),
          Space(1), Number(10, 1), Unit("s") >> >>

OtherLines ==
    { << Word("Running"), Space(1), Number(10, 1), Unit("s"), Space(1), Word("test") >>,
      << Space(2), Word("Thread"), Space(1), Word("Stats"), Space(3), Word("Avg") >>,
      << Word("unable"), Space(1), Word("to"), Space(1), Word("connect"), Space(1),
         Word("Connection"), Space(1), Word("refused") >>,
      << Space(4), Word("Latency"), Space(3), Number(85000, 100), Unit("us"),
         Space(4), Number(100, 100), Unit("ms"), Space(3), Number(200, 100), Unit("s"),
         Space(3), Number(9012, 100), Percent >>,
      << Space(4), Word("Latency"), Space(3), Number(0, 100), Unit("us"),
         Space(4), Number(0, 100), Unit("us"), Space(3), Number(0, 100), Unit("us"),
         Space(3), Word("-nan"), Percent >>,
      PercentileLine(5, 75, 200, 100),
      << Space(2), Word("Socket errors: connect"), Space(1), Number(3, 1),
         Word(", read"), Space(1), Number(2, 1), Word(", write"), Space(1),
         Number(1, 1), Word(", timeout"), Space(1), Number(4, 1) >>,
      << Space(2), Word("Non-2xx or 3xx responses:"), Space(1), Number(7, 1) >> }

Indents == {0, 5}

SampleLines == UNION {{SampleText(n)[k] : k \in 1..6} : n \in Indents}

WrkLines == SampleLines \cup OtherLines

InsertAt(seq, pos, x) == SubSeq(seq, 1, pos) \o << x >> \o SubSeq(seq, pos + 1, Len(seq))

\* Latencies as wrk writes them, a number and its unit: 850us, 0.85ms and
\* 0.00085s are one duration, 156.70us and 0.1567ms another, 2.01s, 2010ms
\* and 2010000us a third, 1.50ms and 1500us a fourth.
Latencies ==
    { << Number(850, 1), Unit("us") >>, << Number(85, 100), Unit("ms") >>,
      << Number(85, 100000), Unit("s") >>,
      << Number(15670, 100), Unit("us") >>, << Number(1567, 10000), Unit("ms") >>,
      << Number(201, 100), Unit("s") >>, << Number(2010, 1), Unit("ms") >>,
      << Number(2010000, 1), Unit("us") >>,
      << Number(150, 100), Unit("ms") >>, << Number(1500, 1), Unit("us") >> }

\* The line of thread statistics with the average and the maximum latency.
LatencyLine(avg, max) ==
    << Space(4), Word("Latency"), Space(3) >> \o avg
       \o << Space(4), Number(100, 100), Unit("ms"), Space(3) >> \o max
       \o << Space(3), Number(9012, 100), Percent >>

TransferUnits == {"KB", "MB", "GB"}

TransferLine(n, d, unit) ==
    << Word("Transfer/sec:"), Space(5), Number(n, d), Unit(unit) >>

\* Every text of up to MaxLines lines, the sample with at most one other
\* line anywhere in it, and the lines with a latency or a throughput in
\* each unit.
Texts ==
    UNION {[1..n -> WrkLines] : n \in 0..MaxLines}
    \cup {SampleText(n) : n \in Indents}
    \cup {InsertAt(SampleText(n), pos, line) :
              n \in Indents, pos \in 0..6, line \in OtherLines}
    \cup {<< LatencyLine(avg, max) >> : avg \in Latencies, max \in Latencies}
    \cup {<< Indented(5, << Number(50, 1), Percent, Space(4) >> \o p50),
             Indented(5, << Number(99, 1), Percent, Space(4) >> \o p99) >> :
              p50 \in Latencies, p99 \in Latencies}
    \cup {<< TransferLine(n, 100, unit) >> : n \in {150, 51225}, unit \in TransferUnits}

ParseInputs == [text : Texts]

\* runWrkBenchmark inside the try block of the run loop: parse what wrk
\* printed and push the result onto runs.
ApplyParseWrkOutput ==
    /\ fn = "parseWrkOutput"
    /\ ~output.set
    /\ output' = Result([result |-> parseWrkOutput(input.text),
                         runs |-> << parseWrkOutput(input.text) >>])
    /\ UNCHANGED << harnessVars, toolVars, fn, input >>

(***************************************************************************)
(* scripts/generate-readme.js.  The generator reads the report that        *)
(* scripts/benchmark.js wrote with JSON.stringify, which writes a number   *)
(* that is not finite (the quotient of a division by zero) as null.        *)
(***************************************************************************)
Null == [num |-> 0, den |-> 0]

\* The results of the setups of two frameworks that had a successful run,
\* in the order of the setup matrix; rpsOf[s] < 0: setup s had none.
ReportedFrameworks == {"Express", "Fastify"}

ReportedSetups ==
    {s \in 1..Len(AllSetups) : AllSetups[s].framework \in ReportedFrameworks}

RpsValues == {0, 100, 150, 300}

ReportedResults(rpsOf) ==
    LET Pushed(s) == s \in ReportedSetups /\ rpsOf[s] >= 0
        entry(s) == [setup |-> s,
                     framework |-> AllSetups[s].framework,
                     runtime |-> AllSetups[s].runtime,
                     requestsPerSecond |-> [num |-> rpsOf[s], den |-> 1],
                     latency |-> [num |-> 1, den |-> 1]]
    IN [k \in 1..Cardinality({s \in 1..Len(AllSetups) : Pushed(s)}) |->
           entry(CHOOSE s \in 1..Len(AllSetups) :
                    /\ Pushed(s)
                    /\ Cardinality({t \in 1..s : Pushed(t)}) = k)]

\* The file as JSON.parse returns it.
LoadedReport(rs) ==
    LET saved == ReportOf("js", Permute(rs, StableOrder(rs, "requestsPerSecond")))
    IN [saved EXCEPT !.comparisons =
           [f \in DOMAIN @ |->
               [@[f] EXCEPT !.percentage = IF @.den = 0 THEN Null ELSE @]]]

ResultsFiles ==
    {[kind |-> "missing", report |-> NoReport], [kind |-> "invalid", report |-> NoReport]}
    \cup {[kind |-> "report", report |-> LoadedReport(ReportedResults(rpsOf))] :
             rpsOf \in [ReportedSetups -> {-1} \cup RpsValues]}

\* Object.keys(comparisons): the frameworks in the order of their first
\* result.
ComparisonKeys(loaded) ==
    LET rs == loaded.results
        IsKey(k) == /\ rs[k].framework \in DOMAIN loaded.comparisons
                    /\ \A j \in 1..(k - 1) : rs[j].framework # rs[k].framework
        keys == SelectSeq([k \in 1..Len(rs) |-> k], IsKey)
    IN [k \in 1..Len(keys) |-> rs[keys[k]].framework]

\* improvement > biggest.improvement, as it would be with >=.
ExceedsOrEquals(improvement, biggest) == ~FracLess(improvement, biggest)

\* improvement > biggest.improvement
Exceeds(improvement, biggest) == FracLess(biggest, improvement)

\* The forEach of getBiggestImprovement; percentage || 0 makes null 0.
RECURSIVE BiggestOf(_, _, _)
BiggestOf(keys, comparisons, biggest) ==
    IF keys = <<>> THEN biggest
    ELSE LET percentage == comparisons[Head(keys)].percentage
             improvement == IF percentage = Null \/ percentage.num = 0
                            THEN [num |-> 0, den |-> 1] ELSE percentage
             next == IF Exceeds(improvement, biggest.improvement)
                     THEN [framework |-> Head(keys), improvement |-> improvement]
                     ELSE biggest
         IN BiggestOf(Tail(keys), comparisons, next)

getBiggestImprovement(loaded) ==
    LET biggest == BiggestOf(ComparisonKeys(loaded), loaded.comparisons,
                             [framework |-> "", improvement |-> [num |-> 0, den |-> 1]])
    IN IF DOMAIN loaded.comparisons = {}
       THEN [text |-> "No runtime comparisons available", framework |-> ""]
       ELSE IF biggest.framework = ""
       THEN [text |-> "No significant improvements detected", framework |-> ""]
       ELSE [text |-> "with Bun", framework |-> biggest.framework]

\* generate: null without a loaded report; the header and the detailed
\* results read rankings.byRequestsPerSecond[0].name and the runtime
\* comparisons call improvement.toFixed, which raise a TypeError on
\* undefined and on null.
generate(file) ==
    IF file.kind # "report" THEN [kind |-> "null"]
    ELSE IF file.report.byRequestsPerSecond = <<>> THEN [kind |-> "TypeError"]
    ELSE IF \E f \in DOMAIN file.report.comparisons :
               file.report.comparisons[f].percentage = Null
    THEN [kind |-> "TypeError"]
    ELSE [kind |-> "document",
          leader |-> file.report.byRequestsPerSecond[1].setup,
          biggest |-> getBiggestImprovement(file.report)]

ReadmeInputs == [file : ResultsFiles]

\* saveReadme: no content, no file; an exception of generate is not caught.
SaveReadme ==
    /\ fn = "saveReadme"
    /\ ~output.set
    /\ \E ok \in BOOLEAN :
         LET content == generate(input.file)
         IN output' = Result(
              CASE content.kind = "null" ->
                     [content |-> content, returned |-> "false", wrote |-> FALSE]
                [] content.kind = "TypeError" ->
                     [content |-> content, returned |-> "TypeError", wrote |-> FALSE]
                [] OTHER ->
                     [content |-> content,
                      returned |-> IF ok THEN "true" ELSE "false",
                      wrote |-> ok])
    /\ UNCHANGED << harnessVars, toolVars, fn, input >>

\* generateComparisons over the results a harness can hold: a recorded run
\* has the requests per second the load generator reported, 0 included
\* (autocannon's requests.average when no response arrived; the zero
\* BenchmarkResult of a wrk output without a Requests/sec line).
ComparisonInputs == {[results |-> ReportedResults(rpsOf)] :
                        rpsOf \in [ReportedSetups -> {-1} \cup RpsValues]}

ApplyGenerateComparisons ==
    /\ fn = "generateComparisons"
    /\ ~output.set
    /\ output' = Result(generateComparisons(input.results))
    /\ UNCHANGED << harnessVars, toolVars, fn, input >>

CalcInit ==
    /\ IdleHarness
    /\ NoTools
    /\ output = Unset
    /\ \/ fn = "checkServerHealth" /\ input \in HealthInputs
       \/ fn = "stop" /\ input \in StopInputs
       \/ fn = "calculateStats" /\ input \in StatsInputs
       \/ fn = "parseWrkOutput" /\ input \in ParseInputs
       \/ fn = "saveReadme" /\ input \in ReadmeInputs
       \/ fn = "generateComparisons" /\ input \in ComparisonInputs

CalcNext ==
    \/ ApplyCheckServerHealth
    \/ StopServer
    \/ ApplyCalculateStats
    \/ ApplyParseWrkOutput
    \/ SaveReadme
    \/ ApplyGenerateComparisons

Calc == CalcInit /\ [][CalcNext]_vars

(***************************************************************************)
(* ServerTester.testServer: the server is spawned, a timer of 3 s issues   *)
(* one HTTP request, a timer of 15 s is the overall timeout.  Every        *)
(* callback tests the flag `resolved` before it resolves the promise.      *)
(* req.setTimeout arms an idle timeout on the socket; its callback does    *)
(* not abort the request, so a response or an error may still follow.      *)
(* `tester` holds the closure: resolved, the values passed to resolve, the *)
(* events that are still to come and the pending SIGKILL timers.           *)
(***************************************************************************)
TestedServer == AllSetups[1]

\* What a server test leaves alone.
TestFrame ==
    UNCHANGED << impl, setupIdx, run, runs, results, i, checks, serverReady,
                 processed, succeeded, statsCalls, report, written, resultsFile,
                 calcVars, setupCli >>

TesterFrame ==
    /\ TestFrame
    /\ UNCHANGED << pc, exitStatus, validator >>

\* A tool starts: nothing of the benchmark harness is in use.
ToolInit(at) ==
    /\ impl = "js"
    /\ pc = at
    /\ setupIdx = 1
    /\ run = 1
    /\ runs = <<>>
    /\ results = <<>>
    /\ i = 0
    /\ checks = 0
    /\ req = NoRequest
    /\ serverReady = FALSE
    /\ processed = <<>>
    /\ succeeded = [s \in 1..NumSetups |-> 0]
    /\ statsCalls = <<>>
    /\ report = NoReport
    /\ written = "no"
    /\ resultsFile = NoReport
    /\ exitStatus = -1
    /\ NoCalc

\* spawn('node', [script]) of a server that behaves as b.
Spawned(b) ==
    /\ procs = (1 :> [port |-> TestedServer.port, beh |-> b, listening |-> FALSE])
    /\ serverProcess = [NoProcess EXCEPT !.pid = 1, !.spawned = TRUE]

\* spawn when the binary cannot be started: a handle without a process.
SpawnFailed ==
    /\ procs = << >>
    /\ serverProcess = [NoProcess EXCEPT !.pid = 1]

NewTester(spawnError) ==
    [active |-> TRUE, resolved |-> FALSE, resolves |-> <<>>,
     spawnError |-> spawnError, startup |-> "pending", overall |-> "pending",
     requests |-> 0, lateRequest |-> FALSE, requestTimeout |-> "none",
     killTimers |-> 0]

\* The state when the executor of the promise returns: spawn has given a
\* handle (with an 'error' event queued when the binary cannot be started)
\* and both timers are armed.
TesterInit ==
    /\ ToolInit("testServer")
    /\ validator = NoTool
    /\ setupCli = NoTool
    /\ \/ \E b \in ServerBehaviours : Spawned(b) /\ tester = NewTester("none")
       \/ SpawnFailed /\ tester = NewTester("queued")

\* The test `if (!resolved)` without effect.
UnresolvedIgnored(t) == TRUE

\* if (!resolved)
Unresolved(t) == ~t.resolved

\* resolved = true; ... resolve(value), with the SIGKILL timer of 1 s where
\* the callback arms one.
Resolved(t, value, escalate) ==
    [t EXCEPT !.resolved = TRUE, !.resolves = Append(@, value),
              !.killTimers = IF escalate THEN @ + 1 ELSE @]

\* serverProcess.kill('SIGTERM')
KillServer ==
    /\ serverProcess' = KillHandle(serverProcess, procs, "SIGTERM")
    /\ procs' = KillProcs(serverProcess, procs, "SIGTERM")

\* serverProcess.on('error'): the binary could not be started.
OnSpawnError ==
    /\ pc = "testServer"
    /\ tester.spawnError = "queued"
    /\ LET t == [tester EXCEPT !.spawnError = "emitted"]
       IN tester' = IF Unresolved(tester) THEN Resolved(t, FALSE, FALSE) ELSE t
    /\ UNCHANGED << serverProcess, procs, req >>
    /\ TesterFrame

\* The server binds its port, or exits because the port is taken.
ServerListens ==
    /\ pc \in {"testServer", "testServerStartup"}
    /\ HandleLive(serverProcess, procs)
    /\ procs[serverProcess.pid].beh.binds
    /\ ~procs[serverProcess.pid].listening
    /\ procs' = [procs EXCEPT ![serverProcess.pid].listening = TRUE]
    /\ UNCHANGED << serverProcess, req, tester >>
    /\ TesterFrame

\* The server exits by itself (an exception at start-up, process.exit).
ServerExits ==
    /\ pc \in {"testServer", "testServerStartup"}
    /\ HandleLive(serverProcess, procs)
    /\ procs' = Remove(procs, serverProcess.pid)
    /\ UNCHANGED << serverProcess, req, tester >>
    /\ TesterFrame

\* setTimeout(..., 3000): if (resolved) return; otherwise the request is
\* made and its idle timeout armed.
StartupTimer ==
    /\ pc = "testServer"
    /\ tester.startup = "pending"
    /\ IF tester.resolved
       THEN /\ tester' = [tester EXCEPT !.startup = "fired"]
            /\ UNCHANGED req
       ELSE /\ tester' = [tester EXCEPT !.startup = "fired", !.requests = @ + 1,
                                         !.requestTimeout = "armed"]
            /\ req' = Probe(procs, TestedServer.port)
    /\ UNCHANGED << serverProcess, procs >>
    /\ TesterFrame

\* The response callback of http.request.
OnResponse ==
    /\ pc = "testServer"
    /\ req.kind = "response"
    /\ req' = NoRequest
    /\ IF Unresolved(tester)
       THEN /\ tester' = Resolved(tester, req.status = 200, TRUE)
            /\ KillServer
       ELSE UNCHANGED << tester, serverProcess, procs >>
    /\ TesterFrame

\* req.on('error'): the connection was refused, or the peer that never
\* answered is gone.
OnRequestError ==
    /\ pc = "testServer"
    /\ \/ req.kind = "error"
       \/ req.kind = "silent" /\ Listeners(procs, TestedServer.port) = {}
    /\ req' = NoRequest
    /\ IF Unresolved(tester)
       THEN /\ tester' = Resolved(tester, FALSE, TRUE)
            /\ KillServer
       ELSE UNCHANGED << tester, serverProcess, procs >>
    /\ TesterFrame

\* req.setTimeout(5000, ...): no SIGKILL timer on this path.
OnRequestTimeout ==
    /\ pc = "testServer"
    /\ tester.requestTimeout = "armed"
    /\ LET t == [tester EXCEPT !.requestTimeout = "fired"]
       IN IF Unresolved(tester)
          THEN /\ tester' = Resolved(t, FALSE, FALSE)
               /\ KillServer
          ELSE /\ tester' = t
               /\ UNCHANGED << serverProcess, procs >>
    /\ UNCHANGED req
    /\ TesterFrame

\* setTimeout(..., 15000): due after the timer of 3 s.
OverallTimer ==
    /\ pc = "testServer"
    /\ tester.startup = "fired"
    /\ tester.overall = "pending"
    /\ LET t == [tester EXCEPT !.overall = "fired"]
       IN IF Unresolved(tester)
          THEN /\ tester' = Resolved(t, FALSE, TRUE)
               /\ KillServer
          ELSE /\ tester' = t
               /\ UNCHANGED << serverProcess, procs >>
    /\ UNCHANGED req
    /\ TesterFrame

\* setTimeout(() => { if (!serverProcess.killed) kill('SIGKILL') }, 1000)
KillTimer ==
    /\ pc = "testServer"
    /\ tester.killTimers > 0
    /\ tester' = [tester EXCEPT !.killTimers = @ - 1]
    /\ IF NeedsKill(serverProcess)
       THEN /\ serverProcess' = KillHandle(serverProcess, procs, "SIGKILL")
            /\ procs' = KillProcs(serverProcess, procs, "SIGKILL")
       ELSE UNCHANGED << serverProcess, procs >>
    /\ UNCHANGED req
    /\ TesterFrame

TesterNext ==
    \/ OnSpawnError
    \/ ServerListens
    \/ ServerExits
    \/ StartupTimer
    \/ OnResponse
    \/ OnRequestError
    \/ OnRequestTimeout
    \/ OverallTimer
    \/ KillTimer

\* The timers of the event loop fire once they are due.
Tester ==
    /\ TesterInit
    /\ [][TesterNext]_vars
    /\ WF_vars(StartupTimer)
    /\ WF_vars(OverallTimer)

(***************************************************************************)
(* SetupValidator.testServerStartup: as testServer, but without a          *)
(* `resolved` flag: the callbacks of the request resolve unconditionally,  *)
(* the overall timeout tests `started`, which only a 200 response sets.    *)
(* req.setTimeout(5000) has no callback; the handle has no 'error'         *)
(* listener.  errors is what the call appended to this.errors, outcomes    *)
(* the verdicts it logged (PASSED, FAILED, TIMEOUT, status).               *)
(***************************************************************************)
NewValidator(spawnError) ==
    [active |-> TRUE, started |-> FALSE, resolves |-> <<>>, errors |-> <<>>,
     outcomes |-> <<>>, spawnError |-> spawnError, startup |-> "pending",
     overall |-> "pending", killTimers |-> 0]

ValidatorInit ==
    /\ ToolInit("testServerStartup")
    /\ tester = NoTool
    /\ setupCli = NoTool
    /\ \/ \E b \in ServerBehaviours : Spawned(b) /\ validator = NewValidator("none")
       \/ SpawnFailed /\ validator = NewValidator("queued")

ValidatorFrame ==
    /\ TestFrame
    /\ UNCHANGED << pc, exitStatus, tester >>

\* serverProcess.kill('SIGTERM'); setTimeout(SIGKILL, 1000); resolve(value)
Finished(v, value) ==
    [v EXCEPT !.resolves = Append(@, value), !.killTimers = @ + 1]

\* The 'error' event of the failed spawn has no listener: the validator
\* ends with an uncaught exception.
UncaughtSpawnError ==
    /\ pc = "testServerStartup"
    /\ validator.spawnError = "queued"
    /\ validator' = [validator EXCEPT !.spawnError = "emitted"]
    /\ pc' = "crashed"
    /\ exitStatus' = 1
    /\ UNCHANGED << serverProcess, procs, req, tester >>
    /\ TestFrame

\* setTimeout(..., 3000): the request is made.
RequestTimer ==
    /\ pc = "testServerStartup"
    /\ validator.startup = "pending"
    /\ validator' = [validator EXCEPT !.startup = "fired"]
    /\ req' = Probe(procs, TestedServer.port)
    /\ UNCHANGED << serverProcess, procs >>
    /\ ValidatorFrame

\* The response callback.
OnStartupResponse ==
    /\ pc = "testServerStartup"
    /\ req.kind = "response"
    /\ req' = NoRequest
    /\ LET ok == req.status = 200
           v == [validator EXCEPT !.started = @ \/ ok,
                                  !.outcomes = Append(@, IF ok THEN "PASSED" ELSE "status")]
       IN validator' = Finished(v, v.started)
    /\ KillServer
    /\ ValidatorFrame

\* req.on('error')
OnStartupRequestError ==
    /\ pc = "testServerStartup"
    /\ \/ req.kind = "error"
       \/ req.kind = "silent" /\ Listeners(procs, TestedServer.port) = {}
    /\ req' = NoRequest
    /\ LET v == [validator EXCEPT !.errors = Append(@, "connection failed"),
                                  !.outcomes = Append(@, "FAILED")]
       IN validator' = Finished(v, FALSE)
    /\ KillServer
    /\ ValidatorFrame

\* if (!started)
NotStarted(v) == ~v.started

\* setTimeout(..., timeout): due after the timer of 3 s.
StartupTimeout ==
    /\ pc = "testServerStartup"
    /\ validator.startup = "fired"
    /\ validator.overall = "pending"
    /\ LET t == [validator EXCEPT !.overall = "fired"]
       IN IF NotStarted(validator)
          THEN /\ validator' =
                     Finished([t EXCEPT !.errors = Append(@, "startup timeout"),
                                        !.outcomes = Append(@, "TIMEOUT")], FALSE)
               /\ KillServer
          ELSE /\ validator' = t
               /\ UNCHANGED << serverProcess, procs >>
    /\ UNCHANGED req
    /\ ValidatorFrame

ValidatorKillTimer ==
    /\ pc = "testServerStartup"
    /\ validator.killTimers > 0
    /\ validator' = [validator EXCEPT !.killTimers = @ - 1]
    /\ IF NeedsKill(serverProcess)
       THEN /\ serverProcess' = KillHandle(serverProcess, procs, "SIGKILL")
            /\ procs' = KillProcs(serverProcess, procs, "SIGKILL")
       ELSE UNCHANGED << serverProcess, procs >>
    /\ UNCHANGED req
    /\ ValidatorFrame

ValidatorNext ==
    \/ UncaughtSpawnError
    \/ ServerListens
    \/ ServerExits
    \/ RequestTimer
    \/ OnStartupResponse
    \/ OnStartupRequestError
    \/ StartupTimeout
    \/ ValidatorKillTimer

Validator == ValidatorInit /\ [][ValidatorNext]_vars

(***************************************************************************)
(* scripts/setup.js: main() and FrameworkBenchmarkSetup.setup().  Each     *)
(* step is one action; its outcome (what the commands, files and servers   *)
(* it touches make of it) is chosen freely.  errors and warnings are       *)
(* this.errors and this.warnings; steps lists the steps the invocation has *)
(* run, failed the steps that returned false or threw; configFile is the   *)
(* existence of benchmark.config.json, which outlives the invocation, and  *)
(* history the invocations that have ended.                                *)
(***************************************************************************)
NewInvocation(force, configFile, history) ==
    [active |-> TRUE, pc |-> "main", force |-> force, steps |-> <<>>,
     failed |-> {}, errors |-> <<>>, warnings |-> <<>>, wrote |-> FALSE,
     returned |-> "none", configFile |-> configFile, history |-> history]

SetupInit ==
    /\ ToolInit("setup")
    /\ procs = << >>
    /\ serverProcess = NoProcess
    /\ tester = NoTool
    /\ validator = NoTool
    /\ \E force \in BOOLEAN : setupCli = NewInvocation(force, FALSE, <<>>)

SetupFrame ==
    UNCHANGED << harnessVars, calcVars, tester, validator >>

At(step) == setupCli.active /\ setupCli.pc = step

\* The invocation ends: process.exit(status).
Exited(c, status, skipped) ==
    [c EXCEPT !.pc = "exited",
              !.history = Append(@, [exit |-> status, wrote |-> c.wrote,
                                     skipped |-> skipped])]

\* main(): with benchmark.config.json present and no --force the setup is
\* taken as complete.
SetupMain ==
    /\ At("main")
    /\ setupCli' = IF setupCli.configFile /\ ~setupCli.force
                   THEN Exited(setupCli, 0, TRUE)
                   ELSE [setupCli EXCEPT !.pc = "checkPrerequisites"]
    /\ SetupFrame

\* The record after a step: the step is listed, an error or a warning
\* pushed, the step marked as failed, control at `next`.
After(c, step, error, warning, fails, next) ==
    [c EXCEPT !.steps = Append(@, step),
              !.errors = IF error THEN Append(@, step) ELSE @,
              !.warnings = IF warning THEN Append(@, step) ELSE @,
              !.failed = IF fails THEN @ \cup {step} ELSE @,
              !.pc = next]

\* Step 1.  Returns false with an error (Node too old, npm missing, no
\* package.json), throws (package.json is not JSON; the catch of setup
\* pushes the error), or returns true, possibly with warnings.
CheckPrerequisites ==
    /\ At("checkPrerequisites")
    /\ \E outcome \in {"ok", "warned", "failed", "threw"} :
         setupCli' =
            IF outcome \in {"failed", "threw"}
            THEN After(setupCli, "prerequisites", TRUE, FALSE, TRUE, "generateReport")
            ELSE After(setupCli, "prerequisites", FALSE, outcome = "warned", FALSE,
                       "installDependencies")
    /\ SetupFrame

\* Step 2.  A failing npm install is an error and returns false; a failing
\* bun install is a warning.
InstallDependencies ==
    /\ At("installDependencies")
    /\ \E outcome \in {"ok", "bunFailed", "nodeFailed"} :
         setupCli' =
            IF outcome = "nodeFailed"
            THEN After(setupCli, "dependencies", TRUE, FALSE, TRUE, "generateReport")
            ELSE After(setupCli, "dependencies", FALSE, outcome = "bunFailed", FALSE,
                       "createDirectories")
    /\ SetupFrame

\* Step 3.  mkdirSync failing is a warning.
CreateDirectories ==
    /\ At("createDirectories")
    /\ \E warned \in BOOLEAN :
         setupCli' = After(setupCli, "directories", FALSE, warned, FALSE,
                           "testServerStartup")
    /\ SetupFrame

\* Step 4.  A missing server script is pushed to errors, a server that does
\* not answer 200 to warnings; both make the step return false.  The
\* request has no timeout handler: with a server that accepts and never
\* answers the step never returns.
TestServerStartup ==
    /\ At("testServerStartup")
    /\ \E outcome \in {"passed", "failed", "missing", "silent"} :
         setupCli' =
            IF outcome = "silent"
            THEN [setupCli EXCEPT !.steps = Append(@, "servers"), !.pc = "pending"]
            ELSE After(setupCli, "servers", outcome = "missing", outcome = "failed",
                       outcome # "passed", "runInitialBenchmark")
    /\ SetupFrame

\* Step 5.  Every failure is caught and pushed to warnings.
RunInitialBenchmark ==
    /\ At("runInitialBenchmark")
    /\ \E outcome \in {"passed", "skipped", "failed"} :
         setupCli' = After(setupCli, "benchmark", FALSE, outcome # "passed",
                           outcome = "failed", "validateSetup")
    /\ SetupFrame

\* Step 6.
ValidateSetup ==
    /\ At("validateSetup")
    /\ \E outcome \in {"passed", "failed"} :
         setupCli' = After(setupCli, "validation", FALSE, outcome = "failed",
                           outcome = "failed", "createConfigFile")
    /\ SetupFrame

\* Step 7.  writeFileSync('benchmark.config.json'); a failure is a warning.
CreateConfigFile ==
    /\ At("createConfigFile")
    /\ \E ok \in BOOLEAN :
         setupCli' = [After(setupCli, "config", FALSE, ~ok, FALSE, "generateReport")
                        EXCEPT !.configFile = @ \/ ok, !.wrote = ok]
    /\ SetupFrame

\* return this.errors.length === 0, with the warnings counted as well.
NoErrorsNoWarnings(c) == c.errors = <<>> /\ c.warnings = <<>>

\* return this.errors.length === 0
NoErrors(c) == c.errors = <<>>

\* generateReport and the end of main: process.exit(success ? 0 : 1).
SetupReport ==
    /\ At("generateReport")
    /\ LET success == NoErrors(setupCli)
       IN setupCli' = Exited([setupCli EXCEPT !.returned = IF success THEN "true" ELSE "false"],
                             IF success THEN 0 ELSE 1, FALSE)
    /\ SetupFrame

\* The script is invoked again, with or without --force.
Invoke ==
    /\ At("exited")
    /\ Len(setupCli.history) < MaxInvocations
    /\ \E force \in BOOLEAN :
         setupCli' = NewInvocation(force, setupCli.configFile, setupCli.history)
    /\ SetupFrame

SetupNext ==
    \/ SetupMain
    \/ CheckPrerequisites
    \/ InstallDependencies
    \/ CreateDirectories
    \/ TestServerStartup
    \/ RunInitialBenchmark
    \/ ValidateSetup
    \/ CreateConfigFile
    \/ SetupReport
    \/ Invoke

Setup == SetupInit /\ [][SetupNext]_vars

(***************************************************************************)
(* Properties of the run loop.                                             *)
(***************************************************************************)
Range(seq) == {seq[k] : k \in 1..Len(seq)}

ServerAlive == serverProcess.spawned /\ serverProcess.pid \in DOMAIN procs

\* C1: when a run is abandoned because waitForServer returned false, the
\* server started for that run, if it still exists, has been sent SIGTERM.
C1_UnhealthyServerSignalled ==
    (pc = "continue" /\ ServerAlive) => "SIGTERM" \in Range(serverProcess.sent)

\* A run abandoned as not ready whose server is still there, signalled.
C1_Witness ==
    /\ pc = "continue"
    /\ ServerAlive
    /\ ~serverReady
    /\ "SIGTERM" \in Range(serverProcess.sent)

\* C2: a runtime binary that cannot be launched drops only that run; it
\* never ends the harness.
C2_SpawnFailureDropsOnlyTheRun == pc # "crashed"

\* C3: whenever the harness has ended, every setup of the matrix has been
\* handed to the run loop exactly once, in the configured order.
C3_EverySetupProcessed ==
    pc \in {"done", "crashed"} => processed = [k \in 1..NumSetups |-> k]

\* C4: at most one benchmark server process exists at any time.
C4_AtMostOneServer == Cardinality(DOMAIN procs) <= 1

\* C5: once a stop has completed, the stopped server process is gone
\* (SIGTERM, then SIGKILL if it had not exited within the grace period).
C5_StoppedServerIsDead ==
    (pc \in {"cooldown", "continue"} /\ serverProcess.spawned)
        => serverProcess.pid \notin DOMAIN procs

\* C6: a health check in flight always settles with true or false.
C6_HealthCheckSettles ==
    pc = "checkServerHealth" => checkServerHealth(impl, req) \in {"true", "false"}

\* C7: the harness never waits in a server stop for a process that does not
\* exit.
C7_StopReturns ==
    pc = "waitpid" => serverProcess.pid \notin DOMAIN procs

\* C8: waitForServer makes at most maxAttempts checks, returns true at the
\* first successful one, and returns false only after maxAttempts failures.
C8_WaitForServerBounded ==
    /\ checks <= MaxStartupAttempts
    /\ pc = "waitForServer" => checks = i
    /\ pc = "checkServerHealth" => checks = i + 1
    /\ pc = "measure" => serverReady /\ checks = i + 1
    /\ (pc = "stop" /\ ~serverReady)
          => checks = MaxStartupAttempts /\ i = MaxStartupAttempts

\* waitForServer returned true at its second check, after one failure.
C8_Witness == pc = "measure" /\ i = 1 /\ checks = 2

\* C9: in the generated report every setup of the matrix has an entry, a
\* setup without a successful run included.
C9_FailedSetupReported ==
    pc = "done" =>
        \A s \in 1..NumSetups : \E k \in 1..Len(report.results) :
            report.results[k].setup = s

\* C10: every entry of results has 1 <= runs <= config.runs and as many raw
\* runs; ranking entries belong to setups with a successful run; the
\* statistics were never computed on an empty run list.
RankedSetups ==
    {report.byRequestsPerSecond[k].setup : k \in 1..Len(report.byRequestsPerSecond)}
    \cup {report.byLatency[k].setup : k \in 1..Len(report.byLatency)}

C10_ReportedEntriesHaveRuns ==
    /\ \A k \in 1..Len(results) :
          /\ results[k].runs \in 1..ConfigRuns
          /\ results[k].runs = succeeded[results[k].setup]
          /\ impl # "legacy" => Len(results[k].rawRuns) = results[k].runs
    /\ \A s \in RankedSetups : succeeded[s] >= 1
    /\ \A k \in 1..Len(statsCalls) : statsCalls[k] >= 1

\* A finished report that ranks one setup while another never succeeded.
C10_Witness ==
    /\ pc = "done"
    /\ Len(report.byRequestsPerSecond) >= 1
    /\ \E s \in 1..NumSetups : succeeded[s] = 0

\* C11: once a signal has ended the harness, the server process it started
\* last no longer exists.
C11_InterruptKillsServer == pc = "interrupted" => ~ServerAlive

\* C12: a harness that has ended after a failed write of its results
\* artifact has a non-zero exit status.
C12_WriteFailureExitsNonZero ==
    (pc = "done" /\ written = "failed") => exitStatus # 0

\* C13: a health check answers true for a response with a status code in
\* 200..299 and false for any other response and for a connection error.
C13_HealthyIffTwoXX ==
    (fn = "checkServerHealth" /\ output.set) =>
        output.value =
            IF input.response.kind = "response" /\ input.response.status \in 200..299
            THEN "true" ELSE "false"

\* C14: a stop of a handle whose process has already exited delivers no
\* signal and returns; a second stop of the same handle returns and
\* delivers no signal beyond those of the first.
C14_StopIdempotent ==
    (fn = "stop" /\ output.set) =>
        /\ ~HandleLive(input.handle, input.procs)
              => output.value.delivered = <<>> /\ ~output.value.blocked
        /\ output.value.calls = 2
              => output.value.delivered = output.value.first /\ ~output.value.blocked

\* The entry of results a ranking entry stands for.
EntryOf(rs, s) == rs[CHOOSE k \in 1..Len(rs) : rs[k].setup = s]

\* ranking lists each entry of rs once, with its value of field and rank i
\* at position i.
RanksEntriesOf(ranking, rs, field) ==
    /\ Len(ranking) = Len(rs)
    /\ {ranking[k].setup : k \in 1..Len(ranking)} = {rs[k].setup : k \in 1..Len(rs)}
    /\ \A k \in 1..Len(ranking) :
          /\ ranking[k].rank = k
          /\ ranking[k].value = EntryOf(rs, ranking[k].setup)[field]

\* C15: in the report, rankings.byRequestsPerSecond lists exactly the
\* entries of results in non-increasing order of mean requests/sec and
\* rankings.byLatency (scripts/benchmark.js) the same entries in
\* non-decreasing order of mean average latency; entry i carries rank i.
C15_RankingsOrdered ==
    report.built =>
        /\ RanksEntriesOf(report.byRequestsPerSecond, report.results, "requestsPerSecond")
        /\ \A k \in 1..(Len(report.byRequestsPerSecond) - 1) :
              ~FracLess(report.byRequestsPerSecond[k].value,
                        report.byRequestsPerSecond[k + 1].value)
        /\ impl = "js" =>
              /\ RanksEntriesOf(report.byLatency, report.results, "latency")
              /\ \A k \in 1..(Len(report.byLatency) - 1) :
                    ~FracLess(report.byLatency[k + 1].value, report.byLatency[k].value)

\* A report of scripts/benchmark.js in which the sort moved the second
\* setup ahead of the first, and the latency ranking is the reverse.
C15_Witness ==
    /\ pc = "done"
    /\ impl = "js"
    /\ Len(report.byRequestsPerSecond) = 2
    /\ report.byRequestsPerSecond[1].setup = 2
    /\ FracLess(report.byRequestsPerSecond[2].value, report.byRequestsPerSecond[1].value)
    /\ report.byLatency[1].setup = 1

\* The frameworks that have both a node and a bun entry in rs.
ComparedFrameworks(rs) ==
    {f \in {rs[k].framework : k \in 1..Len(rs)} :
        /\ \E k \in 1..Len(rs) : rs[k].framework = f /\ rs[k].runtime = "node"
        /\ \E k \in 1..Len(rs) : rs[k].framework = f /\ rs[k].runtime = "bun"}

FracEq(a, b) == a.num * b.den = b.num * a.den

\* The sum, and the sum of the squares, of one field over the runs.
FieldSum(rs, field) ==
    LET RECURSIVE UpTo(_)
        UpTo(k) == IF k = 0 THEN 0 ELSE UpTo(k - 1) + rs[k][field]
    IN UpTo(Len(rs))

FieldSquares(rs, field) ==
    LET RECURSIVE UpTo(_)
        UpTo(k) == IF k = 0 THEN 0 ELSE UpTo(k - 1) + rs[k][field] * rs[k][field]
    IN UpTo(Len(rs))

ArithmeticMean(rs, field) == [num |-> FieldSum(rs, field), den |-> Len(rs)]

\* The population variance E[x^2] - E[x]^2 = (N * sum x^2 - (sum x)^2) / N^2.
PopulationVariance(rs, field) ==
    [num |-> Len(rs) * FieldSquares(rs, field)
                - FieldSum(rs, field) * FieldSum(rs, field),
     den |-> Len(rs) * Len(rs)]

\* C17: for a list of N >= 1 runs the aggregate's requests/sec and average
\* latency are the arithmetic means over the runs, and stdRps and
\* stdLatency are the square roots of the population variances (divisor N),
\* in scripts/benchmark.js and in benchmark_wrk.cpp alike.
C17_MeanAndPopulationStdDev ==
    (fn = "calculateStats" /\ output.set) =>
        LET rs == input.runs
            v  == output.value
        IN /\ FracEq(v.requestsPerSecond, ArithmeticMean(rs, "requestsPerSecond"))
           /\ FracEq(v.latency, ArithmeticMean(rs, "latency"))
           /\ v.stdRps.den # 0 /\ v.stdLatency.den # 0
           /\ FracEq(v.stdRps, PopulationVariance(rs, "requestsPerSecond"))
           /\ FracEq(v.stdLatency, PopulationVariance(rs, "latency"))
           /\ FracEq(calculateStats(rs).stdRps, runBenchmarkStats(rs).stdRps)
           /\ FracEq(calculateStats(rs).stdLatency, runBenchmarkStats(rs).stdLatency)

\* The statistics of three runs with 100, 150 and 0 requests/sec.
C17_Witness ==
    /\ fn = "calculateStats"
    /\ output.set
    /\ Len(input.runs) = 3
    /\ {input.runs[k].requestsPerSecond : k \in 1..3} = {0, 100, 150}
    /\ output.value.stdRps.num > 0

\* C18: in an aggregate the total requests, errors and timeouts are sums of
\* the per-run counts, and requests/sec, the latency percentiles and the
\* throughput are per-run arithmetic means.
C18_CountsSummedRatesAveraged ==
    (fn = "calculateStats" /\ output.set) =>
        LET rs == input.runs
            v  == output.value
        IN /\ FracEq(v.requestsPerSecond, ArithmeticMean(rs, "requestsPerSecond"))
           /\ FracEq(v.throughput, ArithmeticMean(rs, "throughput"))
           /\ input.impl \in {"js", "cpp"} =>
                 /\ v.totalRequests = FieldSum(rs, "totalRequests")
                 /\ FracEq(v.p50, ArithmeticMean(rs, "p50"))
                 /\ FracEq(v.p90, ArithmeticMean(rs, "p90"))
                 /\ FracEq(v.p99, ArithmeticMean(rs, "p99"))
           /\ input.impl = "js" =>
                 /\ FracEq(v.p95, ArithmeticMean(rs, "p95"))
                 /\ v.totalErrors = FieldSum(rs, "errors") + FieldSum(rs, "timeouts")
                                        + FieldSum(rs, "non2xx")
           /\ input.impl = "cpp" =>
                 /\ v.errors = FieldSum(rs, "errors")
                 /\ v.timeouts = FieldSum(rs, "timeouts")
           /\ input.impl = "legacy" => v.errors = FieldSum(rs, "errors")

\* The C++ aggregate of two runs that had errors and timeouts.
C18_Witness ==
    /\ fn = "calculateStats"
    /\ output.set
    /\ input.impl = "cpp"
    /\ Len(input.runs) = 2
    /\ output.value.errors = 11
    /\ output.value.timeouts = 12
    /\ output.value.totalRequests = 1500
    /\ output.value.throughput = [num |-> 3000, den |-> 2]

Regexes == {rpsRegex, transferRegex, totalRegex, latencyRegex, percentileRegex,
            socketErrorRegex, nonErrorRegex}

MatchesAny(line) == \E regex \in Regexes : regex_search(line, regex) # 0

\* No line of the text matches the regular expression.
NoLineMatches(text, regex) ==
    \A k \in 1..Len(text) : regex_search(text[k], regex) = 0

\* C19: parsing a text of the load generator gives the result of parsing
\* its matching lines alone (the other lines are ignored); a field none of
\* whose lines is present keeps its zero default; the result is pushed onto
\* the runs, and a text without any matching line (wrk could not connect)
\* is recorded as the all-zero run.
C19_UnmatchedLinesIgnored ==
    (fn = "parseWrkOutput" /\ output.set) =>
        LET text == input.text
            r == output.value.result
        IN /\ r = parseWrkOutput(SelectSeq(text, MatchesAny))
           /\ NoLineMatches(text, rpsRegex) => r.requestsPerSecond = DoubleZero
           /\ NoLineMatches(text, transferRegex) => r.throughput = DoubleZero
           /\ NoLineMatches(text, totalRegex) => r.totalRequests = 0
           /\ NoLineMatches(text, latencyRegex)
                 => r.avgLatency = DoubleZero /\ r.maxLatency = DoubleZero
           /\ NoLineMatches(text, percentileRegex)
                 => /\ r.p50Latency = DoubleZero /\ r.p75Latency = DoubleZero
                    /\ r.p90Latency = DoubleZero /\ r.p99Latency = DoubleZero
           /\ NoLineMatches(text, socketErrorRegex)
                 => r.socketErrors = 0 /\ r.timeouts = 0
           /\ (NoLineMatches(text, socketErrorRegex) /\ NoLineMatches(text, nonErrorRegex))
                 => r.errors = 0
           /\ (\A k \in 1..Len(text) : ~MatchesAny(text[k])) => r = ZeroResult
           /\ output.value.runs = << r >>

\* wrk could not connect: its message, then a line of statistics that has
\* "-nan" where the regular expression wants a number; the run is recorded
\* with all fields zero.
C19_Witness ==
    /\ fn = "parseWrkOutput"
    /\ output.set
    /\ Len(input.text) = 2
    /\ input.text[1][1] = Word("unable")
    /\ \E k \in 1..Len(input.text[2]) : input.text[2][k] = Word("-nan")
    /\ output.value.runs = << ZeroResult >>

\* The text has every line of the sample.
HasSample(text) ==
    \E n \in Indents :
        \A k \in 1..6 : \E j \in 1..Len(text) : text[j] = SampleText(n)[k]

\* C20: a text with the lines Requests/sec: 12345.67, Transfer/sec: 1.50MB,
\* 50% 1.20ms, 90% 3.40ms, 99% 9.90ms and 1000 requests in 10s parses to
\* requestsPerSecond 12345.67, throughput 1572864, p50 1.20, p90 3.40,
\* p99 9.90 and totalRequests 1000, whatever other line it has.
C20_SampleParses ==
    (fn = "parseWrkOutput" /\ output.set /\ HasSample(input.text)) =>
        LET r == output.value.result
        IN /\ r.requestsPerSecond = stod(Number(1234567, 100))
           /\ r.throughput = stod(Number(1572864, 1))
           /\ r.p50Latency = stod(Number(120, 100))
           /\ r.p90Latency = stod(Number(340, 100))
           /\ r.p99Latency = stod(Number(990, 100))
           /\ r.totalRequests = 1000

\* The last line of the text with a match of the regular expression that
\* satisfies P, 0 without one.
LastLine(text, regex, P(_, _)) ==
    LET matching == {k \in 1..Len(text) :
                        /\ regex_search(text[k], regex) # 0
                        /\ P(text[k], regex_search(text[k], regex))}
    IN IF matching = {} THEN 0
       ELSE CHOOSE k \in matching : \A j \in matching : j <= k

AnyMatch(line, p) == TRUE

IsPercentile50(line, p) == line[p + 1].n = 50

IsPercentile99(line, p) == line[p + 1].n = 99

\* A duration written as a number and a unit, in hundredths of a
\* microsecond.
Duration(number, unit) ==
    LET microseconds == CASE unit.s = "us" -> 1
                          [] unit.s = "ms" -> 1000
                          [] unit.s = "s"  -> 1000000
    IN number.n * ((100 * microseconds) \div number.d)

\* The number in milliseconds: us divided by 1000, ms unchanged, s
\* multiplied by 1000.
Milliseconds(number, unit) ==
    CASE unit.s = "us" -> DividedBy(stod(number), 1000)
      [] unit.s = "ms" -> stod(number)
      [] unit.s = "s"  -> Times(stod(number), 1000)

BytesPerSecond(number, unit) ==
    CASE unit.s = "KB" -> Times(stod(number), 1024)
      [] unit.s = "MB" -> Times(Times(stod(number), 1024), 1024)
      [] unit.s = "GB" -> Times(Times(Times(stod(number), 1024), 1024), 1024)

\* C21: every latency of the text (average and maximum of the Latency
\* line, the 50% and 99% lines) is parsed to its number in milliseconds,
\* two latencies of one text that denote the same duration in different
\* units are parsed to equal values, and a throughput in KB, MB or GB is
\* parsed to its number times 1024, 1024^2 or 1024^3.
C21_UnitsNormalised ==
    (fn = "parseWrkOutput" /\ output.set) =>
        LET text == input.text
            r == output.value.result
            l == LastLine(text, latencyRegex, AnyMatch)
            lp == regex_search(text[l], latencyRegex)
            h == LastLine(text, percentileRegex, IsPercentile50)
            hp == regex_search(text[h], percentileRegex)
            n == LastLine(text, percentileRegex, IsPercentile99)
            np == regex_search(text[n], percentileRegex)
            t == LastLine(text, transferRegex, AnyMatch)
            tp == regex_search(text[t], transferRegex)
        IN /\ l # 0 =>
                /\ r.avgLatency = Milliseconds(text[l][lp + 2], text[l][lp + 3])
                /\ r.maxLatency = Milliseconds(text[l][lp + 8], text[l][lp + 9])
                /\ Duration(text[l][lp + 2], text[l][lp + 3])
                      = Duration(text[l][lp + 8], text[l][lp + 9])
                   => r.avgLatency = r.maxLatency
           /\ h # 0 => r.p50Latency = Milliseconds(text[h][hp + 4], text[h][hp + 5])
           /\ n # 0 => r.p99Latency = Milliseconds(text[n][np + 4], text[n][np + 5])
           /\ (h # 0 /\ n # 0
                 /\ Duration(text[h][hp + 4], text[h][hp + 5])
                      = Duration(text[n][np + 4], text[n][np + 5]))
              => r.p50Latency = r.p99Latency
           /\ t # 0 => r.throughput = BytesPerSecond(text[t][tp + 2], text[t][tp + 3])

\* The header of a generated document and the report it was generated from.
HeaderOf(out) == out.value.content

Generated == fn = "saveReadme" /\ output.set /\ output.value.content.kind = "document"

\* The frameworks of the report whose improvement percentage is the largest.
LargestImprovements(loaded) ==
    {f \in DOMAIN loaded.comparisons :
        \A g \in DOMAIN loaded.comparisons :
            ~FracLess(loaded.comparisons[f].percentage, loaded.comparisons[g].percentage)}

\* C22 as stated: the header names the first entry of the requests/sec
\* ranking as the leader and, whenever the report has comparisons, a
\* framework whose improvement percentage is the largest of them.
C22_HeaderNamesLargest ==
    Generated =>
        LET loaded == input.file.report
        IN /\ HeaderOf(output).leader = loaded.byRequestsPerSecond[1].setup
           /\ DOMAIN loaded.comparisons # {}
                 => HeaderOf(output).biggest.framework \in LargestImprovements(loaded)

\* C22 amended: the header names the first entry of the requests/sec
\* ranking as the leader; it names a framework whose improvement percentage
\* is the largest if that percentage is above zero, and no framework
\* otherwise ("No significant improvements detected", or "No runtime
\* comparisons available" for a report without comparisons).
C22_HeaderNamesLargestPositive ==
    Generated =>
        LET loaded == input.file.report
            biggest == HeaderOf(output).biggest
            positive == {f \in DOMAIN loaded.comparisons :
                            FracLess([num |-> 0, den |-> 1], loaded.comparisons[f].percentage)}
        IN /\ HeaderOf(output).leader = loaded.byRequestsPerSecond[1].setup
           /\ positive # {} =>
                 /\ biggest.framework \in LargestImprovements(loaded)
                 /\ biggest.text = "with Bun"
           /\ positive = {} =>
                 /\ biggest.framework = ""
                 /\ biggest.text = IF DOMAIN loaded.comparisons = {}
                                   THEN "No runtime comparisons available"
                                   ELSE "No significant improvements detected"

\* Two comparisons with different improvements above zero, the larger one
\* not the first key: the header names it.
C22_Witness ==
    /\ Generated
    /\ LET loaded == input.file.report
           keys == ComparisonKeys(loaded)
       IN /\ Len(keys) = 2
          /\ FracLess([num |-> 0, den |-> 1], loaded.comparisons[keys[1]].percentage)
          /\ FracLess(loaded.comparisons[keys[1]].percentage,
                      loaded.comparisons[keys[2]].percentage)
          /\ HeaderOf(output).biggest.framework = keys[2]

\* C23: the report that saveResults serializes to disk is equal, the
\* timestamp of its metadata included, to the report that runAllBenchmarks
\* returned in the same invocation.
C23_ReportBuiltOnce ==
    (pc = "done" /\ written = "yes") => resultsFile = report

\* C24: generate returns null when the results file cannot be read or
\* parsed and a document, without raising, for every loaded report;
\* saveReadme returns false and writes no file when generate returns null.
C24_GeneratorRobust ==
    (fn = "saveReadme" /\ output.set) =>
        LET content == output.value.content
        IN /\ input.file.kind # "report" => content.kind = "null"
           /\ input.file.kind = "report" => content.kind = "document"
           /\ content.kind = "null"
                 => output.value.returned = "false" /\ ~output.value.wrote

\* C25: when waitForServer has reported the server healthy and the load
\* measurement starts, the process listening on the setup's port is the
\* server process started for that run, never one left over from an
\* earlier run or setup.
C25_MeasuredServerIsOwn ==
    pc = "measure" =>
        /\ Listeners(procs, CurrentSetup.port) # {}
        /\ \A p \in Listeners(procs, CurrentSetup.port) : p = serverProcess.pid

C27_OneErrorOneOutcome ==
    validator.active =>
        /\ Len(validator.errors) <= 1
        /\ Len(validator.outcomes) <= 1

\* C28: every improvement percentage of the comparisons is a finite number:
\* the divisor, the node requests per second, is never zero.
C28_PercentagesFinite ==
    (fn = "generateComparisons" /\ output.set) =>
        \A f \in DOMAIN output.value : output.value[f].percentage.den # 0

\* C29: an invocation is skipped as already complete only if an earlier
\* invocation ended without errors, and an invocation that ends with exit
\* status 1 has not written benchmark.config.json.
C29_ConfigOnlyAfterCleanRun ==
    setupCli.active =>
        \A k \in 1..Len(setupCli.history) :
            LET r == setupCli.history[k]
            IN /\ r.skipped =>
                     \E j \in 1..(k - 1) :
                         ~setupCli.history[j].skipped /\ setupCli.history[j].exit = 0
               /\ r.exit = 1 => ~r.wrote

StepOrder ==
    << "prerequisites", "dependencies", "directories", "servers", "benchmark",
       "validation", "config" >>

\* C30: the steps an invocation has run are a prefix of the fixed order; a
\* failed prerequisite check or Node dependency install is the last step
\* run; when setup returns, it has run all seven steps unless one of these
\* two failed, whatever the other steps returned; and it returns true
\* exactly if the error list is empty.
C30_StepsInOrder ==
    setupCli.active =>
        LET c == setupCli
            aborting == c.failed \cap {"prerequisites", "dependencies"}
        IN /\ Len(c.steps) <= Len(StepOrder)
           /\ c.steps = SubSeq(StepOrder, 1, Len(c.steps))
           /\ \A step \in aborting : c.steps[Len(c.steps)] = step
           /\ c.returned # "none" =>
                 /\ aborting = {} => c.steps = StepOrder
                 /\ (c.returned = "true") <=> (c.errors = <<>>)

\* A setup whose server tests, initial benchmark and validation all failed
\* with warnings only: all seven steps have run and setup returned true.
C30_Witness ==
    /\ setupCli.active
    /\ setupCli.failed = {"servers", "benchmark", "validation"}
    /\ setupCli.steps = StepOrder
    /\ setupCli.warnings # <<>>
    /\ setupCli.errors = <<>>
    /\ setupCli.returned = "true"

====
